---- MODULE Spec2Model ----
(***************************************************************************)
(* Railway integration for Home Assistant: the aggregator                  *)
(* RailwayApiClient.async_get_all_data (custom_components/railway/api.py)  *)
(* and the poll coordinator RailwayDataUpdateCoordinator                   *)
(* (custom_components/railway/coordinator.py, __init__.py).                *)
(*                                                                         *)
(* One poll cycle is a sequence of steps, one per awaited remote query:    *)
(* every action below is the completion of the query the cycle is          *)
(* suspended at, followed by all the code that runs up to the next await   *)
(* (or up to the end of the cycle, publication of the snapshot included).  *)
(***************************************************************************)
EXTENDS Integers, Sequences, FiniteSets, TLC

\* Total number of list elements (projects, workspaces, templates) the remote
\* returns over one run.
MaxItems == 3

ProjectIds == {"p1", "p2"}
WorkspaceIds == {"w1", "w2"}
TemplateIds == {"t1", "t2"}

\* A node whose "id" is missing or empty: `if not project_id: continue`.
NoId == ""
\* Python None stored by dict.get() without default.
None == "None"
\* JSON null in a numeric field of a response.
Null == -1

\* Python {} ; in TLA+ the function with the empty domain (also the empty list).
EmptyMap == << >>

\* dict.get(k, d)
Get(m, k, d) == IF k \in DOMAIN m THEN m[k] ELSE d

\* m[k] = v
Put(m, k, v) == [x \in (DOMAIN m) \cup {k} |-> IF x = k THEN v ELSE m[x]]

\* `x or 0` on a number or null
Or0(v) == IF v = Null THEN 0 ELSE v

SeqUpTo(n, S) == UNION {[1..m -> S] : m \in 0..n}

\* The exception classes of api.py, and the exceptions that are none of them.
RailwayErrors == {"RailwayAuthError", "RailwayConnectionError", "RailwayApiError"}
TransportErrors == {"TimeoutError"}

(***************************************************************************)
(* Values of the typed accessors.                                          *)
(***************************************************************************)
User == [id |-> "u1", name |-> "Ann", email |-> "ann@example.org"]

\* async_get_me_with_workspaces(): data.get("me", {})
MeWithWorkspacesData(b) ==
    {EmptyMap, User}
        \cup {[id |-> "u1", name |-> "Ann", email |-> "ann@example.org",
               workspaces |-> ws] : ws \in SeqUpTo(b, WorkspaceIds \cup {NoId})}

\* async_get_me(): data.get("me", {})
MeData == {EmptyMap, User}

\* async_get_projects(): the nodes of the edges, each node reduced to its id
ProjectLists(b) == SeqUpTo(b, ProjectIds \cup {NoId})

\* async_get_deployments(): the flattened deployments, each reduced to its status
DeploymentLists == {<< >>, <<"SUCCESS">>}

\* async_get_referral_info(): data.get("referralInfo", {})
StatsMaps == UNION {[S -> {Null, 1}] : S \in SUBSET {"credited", "pending"}}
ReferralInfos == {EmptyMap} \cup {[referralStats |-> s] : s \in StatsMaps}

\* async_get_workspace_templates(): the nodes of the edges
TemplateNodes ==
    {[totalPayout |-> p] : p \in {Null, 1}}
        \cup {[id |-> t, totalPayout |-> p] : t \in TemplateIds, p \in {Null, 1}}
TemplateLists(b) == SeqUpTo(b, TemplateNodes)

\* async_get_template_metrics(): data.get("templateMetrics", {})
MetricsData == [earningsLast30Days : {Null, 1}, totalEarnings : {Null, 1}]

(***************************************************************************)
(* async_get_all_data: the snapshot under construction.                    *)
(***************************************************************************)
ZeroTotals ==
    [templates_30d |-> 0, templates_total |-> 0, templates_payout |-> 0,
     referrals_credited |-> 0, referrals_pending |-> 0]

\* result: dict = {...}, api.py lines 339-354
InitialResult ==
    [me |-> EmptyMap, workspaces |-> << >>, projects |-> << >>,
     deployments |-> EmptyMap, referrals |-> EmptyMap, templates |-> << >>,
     template_metrics |-> EmptyMap, earnings |-> ZeroTotals]

SnapshotKeys ==
    {"me", "workspaces", "projects", "deployments", "referrals", "templates",
     "template_metrics", "earnings"}

\* The position of the coroutine when it is not running.
Idle == [pc |-> "idle"]

\* Lines 446-454: the earnings are written from the accumulators and the
\* result is returned.
ReturnResult(res, tot) ==
    [pc |-> "return", res |-> [res EXCEPT !.earnings = tot]]

\* Faulty variant of WorkspaceLoop: the loop starts each workspace at its
\* templates query.
RECURSIVE WorkspaceLoopSkipsReferral(_, _, _)
WorkspaceLoopSkipsReferral(res, tot, j) ==
    IF j > Len(res.workspaces) THEN ReturnResult(res, tot)
    ELSE IF res.workspaces[j] = NoId THEN WorkspaceLoopSkipsReferral(res, tot, j + 1)
    ELSE [pc |-> "workspace_templates", res |-> res, tot |-> tot, j |-> j]

\* Lines 401-404: the workspace loop from index j on, up to its next await.
RECURSIVE WorkspaceLoop(_, _, _)
WorkspaceLoop(res, tot, j) ==
    IF j > Len(res.workspaces) THEN ReturnResult(res, tot)
    ELSE IF res.workspaces[j] = NoId THEN WorkspaceLoop(res, tot, j + 1)
    ELSE [pc |-> "referral_info", res |-> res, tot |-> tot, j |-> j]

\* Lines 421-428: the loop over the templates of workspace j from index k on,
\* up to its next await.
RECURSIVE TemplateLoop(_, _, _, _, _)
TemplateLoop(res, tot, j, tpls, k) ==
    IF k > Len(tpls) THEN WorkspaceLoop(res, tot, j + 1)
    ELSE LET template == Put(tpls[k], "workspace_id", res.workspaces[j])
             res2 == [res EXCEPT !.templates = Append(@, template)]
             tot2 == [tot EXCEPT !.templates_payout =
                                     @ + Or0(Get(template, "totalPayout", 0))]
         IN  IF Get(template, "id", NoId) # NoId
             THEN [pc |-> "template_metrics", res |-> res2, tot |-> tot2,
                   j |-> j, templates |-> tpls, k |-> k]
             ELSE TemplateLoop(res2, tot2, j, tpls, k + 1)

\* Lines 380-383 and 394-399: the project loop from index i on, up to its next
\* await; after the last project the accumulators start at zero.
RECURSIVE ProjectLoop(_, _)
ProjectLoop(res, i) ==
    IF i > Len(res.projects) THEN WorkspaceLoop(res, ZeroTotals, 1)
    ELSE IF res.projects[i] = NoId THEN ProjectLoop(res, i + 1)
    ELSE [pc |-> "deployments", res |-> res, i |-> i]

(***************************************************************************)
(* State.                                                                  *)
(***************************************************************************)
VARIABLES
    heap,                 \* the snapshot dicts that exist, by reference
    data,                 \* coordinator.data: a reference, or NoRef
    last_update_success,  \* coordinator.last_update_success
    entry_state,          \* state of the config entry
    signal,               \* how the last _async_update_data call ended
    frame,                \* the suspended async_get_all_data call
    budget,               \* list elements the remote may still return
    queries,              \* the queries of the current (or last) cycle
    allFailedWith,        \* the error every query of the cycle has failed with
    call,                 \* a single call of a client method, seen on its own
    remote,               \* the answer of the remote to each query, when fixed
    entries,              \* the config entries, by unique id: data and options
    update_interval,      \* coordinator.update_interval, in seconds
    flow,                 \* the result of the last step of a config flow
    listener_calls        \* calls of _async_update_listener not yet run

vars ==
    <<heap, data, last_update_success, entry_state, signal, frame, budget,
      queries, allFailedWith, call, remote, entries, update_interval, flow,
      listener_calls>>

flowVars == <<entries, update_interval, flow, listener_calls>>

Refs == {"r1", "r2"}
NoRef == "none"
\* coordinator.data is None; also the content of a reference not in use.
NoSnapshot == << >>
\* No client method is being followed on its own.
NoCall == [pc |-> "idle"]
\* The remote is not held fixed: each query may get any answer.
NoRemote == << >>

(***************************************************************************)
(* The config entry and the poll interval, __init__.py 33-49.              *)
(***************************************************************************)
\* const.py line 12
CONF_API_TOKEN == "api_token"
\* Imported from const.py by __init__.py and config_flow.py.
CONF_TOKEN_TYPE == "token_type"
CONF_SCAN_INTERVAL == "scan_interval"
\* The default of the poll interval, in minutes.
DEFAULT_SCAN_INTERVAL_MINUTES == 15

\* The account of the entry whose coordinator is followed.
AccountId == "u1"

\* No coordinator exists.
NoInterval == 0
\* No flow step has been taken.
NoFlow == [type |-> "none"]

\* An option value is a string (from the selector) or an integer.
StrValue(chars) == [str |-> chars]
IntValue(n) == [int |-> n]

\* int(s) for a string of decimal digits
Digit(c) ==
    CASE c = "0" -> 0 [] c = "1" -> 1 [] c = "2" -> 2 [] c = "3" -> 3
      [] c = "4" -> 4 [] c = "5" -> 5 [] c = "6" -> 6 [] c = "7" -> 7
      [] c = "8" -> 8 [] c = "9" -> 9

RECURSIVE ParseInt(_)
ParseInt(chars) ==
    IF Len(chars) = 0 THEN 0
    ELSE 10 * ParseInt(SubSeq(chars, 1, Len(chars) - 1)) + Digit(chars[Len(chars)])

\* timedelta(minutes=m), in seconds
Minutes(m) == 60 * m

\* Faulty variant of GetScanInterval: the number is taken as seconds.
GetScanIntervalSeconds(entry) ==
    LET scan_minutes == Get(entry.options, CONF_SCAN_INTERVAL,
                            IntValue(DEFAULT_SCAN_INTERVAL_MINUTES))
    IN  IF "str" \in DOMAIN scan_minutes
        THEN ParseInt(scan_minutes.str)
        ELSE scan_minutes.int

\* _get_scan_interval, __init__.py 33-39
GetScanInterval(entry) ==
    LET scan_minutes == Get(entry.options, CONF_SCAN_INTERVAL,
                            IntValue(DEFAULT_SCAN_INTERVAL_MINUTES))
    IN  IF "str" \in DOMAIN scan_minutes
        THEN Minutes(ParseInt(scan_minutes.str))
        ELSE Minutes(scan_minutes.int)

\* The data of an entry as async_step_user stores it, config_flow.py 102-107.
EntryData(api_token, token_type, account_id, account_name) ==
    [api_token |-> api_token, token_type |-> token_type,
     account_id |-> account_id, account_name |-> account_name]

\* One entry is configured, with no option stored.
ConfiguredEntries ==
    (AccountId :> [data |-> EntryData("token", "personal", AccountId, "Ann"),
                   options |-> EmptyMap])

\* What consumers read through entry.runtime_data.data.
Visible == IF data = NoRef THEN NoSnapshot ELSE heap[data]

\* Faulty variant of NewDict: the call builds its result in the dict that was
\* handed out by the previous call.
NewDictReused(held) == IF held = NoRef THEN CHOOSE r \in Refs : TRUE ELSE held

\* The dict literal of line 339 is a new object, distinct from every dict
\* handed out before.
NewDict(held) == CHOOSE r \in Refs : r # held

\* `except RailwayApiError` (lines 365, 370, 376, 389, 413, 434, 440): the
\* exceptions each branch catches; RailwayAuthError and RailwayConnectionError
\* are subclasses of RailwayApiError.
Caught == RailwayErrors

Init ==
    /\ heap = [r \in Refs |-> NoSnapshot]
    /\ data = NoRef
    /\ last_update_success = TRUE
    /\ entry_state = "not_loaded"
    /\ signal = "none"
    /\ frame = Idle
    /\ budget = MaxItems
    /\ queries = << >>
    /\ allFailedWith = "n/a"
    /\ call = NoCall
    /\ remote = NoRemote
    /\ entries = ConfiguredEntries
    /\ update_interval = NoInterval
    /\ flow = NoFlow
    /\ listener_calls = 0

(***************************************************************************)
(* RailwayDataUpdateCoordinator._async_update_data, coordinator.py 42-51:  *)
(* the exception it raises for an exception of the aggregator call.        *)
(***************************************************************************)
AsyncUpdateData(exc) ==
    CASE exc = "RailwayAuthError" -> "ConfigEntryAuthFailed"
      [] exc = "RailwayConnectionError" -> "ConfigEntryNotReady"
      [] exc = "RailwayApiError" -> "UpdateFailed"
      [] OTHER -> exc

(***************************************************************************)
(* The refresh of the Home Assistant DataUpdateCoordinator base class      *)
(* around _async_update_data, and async_setup_entry around the first one.  *)
(***************************************************************************)
\* self.data = await self._async_update_data(): the returned dict replaces
\* the reference held, the success flag is set; on the first refresh
\* async_setup_entry goes on (lines 52-59) and the entry is loaded.
RefreshReturned(ref, res) ==
    /\ heap' = [r \in Refs |-> IF r = ref THEN res ELSE NoSnapshot]
    /\ data' = ref
    /\ last_update_success' = TRUE
    /\ signal' = "success"
    /\ entry_state' = "loaded"

\* _async_update_data raised: data is kept, the flag is cleared. The first
\* refresh raises out of async_setup_entry (line 50): the entry is not set
\* up, to be retried, or waits for re-authentication.
RefreshRaised(sig) ==
    /\ heap' = [r \in Refs |-> IF r = data THEN heap[r] ELSE NoSnapshot]
    /\ data' = data
    /\ last_update_success' = FALSE
    /\ signal' = sig
    /\ entry_state' =
         IF sig = "ConfigEntryAuthFailed"
         THEN (IF entry_state = "setup_in_progress"
               THEN "setup_error" ELSE "reauth")
         ELSE (IF entry_state = "setup_in_progress"
               THEN "setup_retry" ELSE "loaded")

(***************************************************************************)
(* Steps of async_get_all_data.                                            *)
(***************************************************************************)
Result == heap[frame.res]

\* One entry per query awaited: the accessor, its argument, and "ok", "failed"
\* (a client error the branch caught) or the exception that propagated.
Log(q, arg, out) ==
    queries' = Append(queries, [q |-> q, arg |-> arg, out |-> out])

\* The same for a query that returned `val`.
LogValue(q, arg, out, val) ==
    queries' = Append(queries, [q |-> q, arg |-> arg, out |-> out, val |-> val])

Succeeded == allFailedWith' = "n/a"

Failed(e) ==
    allFailedWith' =
        IF allFailedWith = "start" THEN e
        ELSE IF allFailedWith \in {e, "n/a"} THEN allFailedWith
        ELSE "mixed"

\* The call goes on to its next await, or returns to _async_update_data
\* (line 45), which returns the same dict to the refresh. In `nxt` the field
\* res is the content of the dict; in `frame` it is the reference to it.
Proceed(nxt) ==
    /\ IF nxt.pc = "return"
       THEN /\ RefreshReturned(frame.res, nxt.res)
            /\ frame' = Idle
       ELSE /\ heap' = [heap EXCEPT ![frame.res] = nxt.res]
            /\ frame' = [nxt EXCEPT !.res = frame.res]
            /\ UNCHANGED <<data, last_update_success, entry_state, signal>>
    /\ UNCHANGED <<call, remote, flowVars>>

\* Faulty variant of Propagate: _async_update_data swallows the exception and
\* returns an empty dict.
PropagateSwallowed(exc) ==
    /\ RefreshReturned(frame.res, NoSnapshot)
    /\ frame' = Idle
    /\ UNCHANGED <<call, remote, flowVars>>

\* An exception leaves async_get_all_data; _async_update_data (lines 46-51)
\* raises its own exception for it, or lets it pass.
Propagate(exc) ==
    /\ RefreshRaised(AsyncUpdateData(exc))
    /\ frame' = Idle
    /\ UNCHANGED <<call, remote, flowVars>>

\* Faulty variant of StartCall: the call goes on from the result of the call
\* before it, as if the dict were kept on the client.
StartCallKeepsResult ==
    /\ frame = Idle
    /\ LET ref == NewDict(data)
       IN  /\ heap' = [heap EXCEPT ![ref] = IF data = NoRef THEN InitialResult
                                            ELSE heap[data]]
           /\ frame' = [pc |-> "me_with_workspaces", res |-> ref]
    /\ queries' = << >>
    /\ allFailedWith' = "start"
    /\ UNCHANGED <<data, last_update_success, signal, call, remote>>

\* Lines 339-358: a call starts and suspends at the combined identity query.
StartCall ==
    /\ frame = Idle
    /\ LET ref == NewDict(data)
       IN  /\ heap' = [heap EXCEPT ![ref] = InitialResult]
           /\ frame' = [pc |-> "me_with_workspaces", res |-> ref]
    /\ queries' = << >>
    /\ allFailedWith' = "start"
    /\ UNCHANGED <<data, last_update_success, signal, call, remote>>

\* async_setup_entry, __init__.py 42-50: a new coordinator, with the interval
\* of the entry's options, and its first refresh.
SetupEntry ==
    /\ AccountId \in DOMAIN entries
    /\ entry_state \in {"not_loaded", "setup_retry"}
    /\ entry_state' = "setup_in_progress"
    /\ frame = Idle
    /\ LET ref == NewDict(NoRef)
       IN  /\ heap' = [r \in Refs |-> IF r = ref THEN InitialResult ELSE NoSnapshot]
           /\ frame' = [pc |-> "me_with_workspaces", res |-> ref]
    /\ data' = NoRef
    /\ last_update_success' = TRUE
    /\ queries' = << >>
    /\ allFailedWith' = "start"
    /\ update_interval' = GetScanInterval(entries[AccountId])
    /\ UNCHANGED <<signal, budget, call, remote, entries, flow, listener_calls>>

\* The update interval elapses on a loaded entry: the next refresh.
ScheduledRefresh ==
    /\ entry_state = "loaded"
    /\ entry_state' = entry_state
    /\ budget > 0
    /\ budget' = budget - 1
    /\ StartCall
    /\ UNCHANGED flowVars

\* Lines 357-364.
MeWithWorkspacesReturns ==
    /\ frame.pc = "me_with_workspaces"
    /\ \E me_data \in MeWithWorkspacesData(budget) :
         LET ws == Get(me_data, "workspaces", << >>)
             res == [Result EXCEPT
                        !.me = [id |-> Get(me_data, "id", None),
                                name |-> Get(me_data, "name", None),
                                email |-> Get(me_data, "email", None)],
                        !.workspaces = ws]
         IN  /\ budget' = budget - Len(ws)
             /\ Proceed([pc |-> "projects", res |-> res])
             /\ LogValue("me_with_workspaces", NoId, "ok", me_data)
    /\ Succeeded

\* Faulty variant of MeWithWorkspacesFails: no fallback to the plain query.
MeWithWorkspacesFailsNoFallback ==
    /\ frame.pc = "me_with_workspaces"
    /\ \E e \in Caught :
         /\ Failed(e)
         /\ Proceed([pc |-> "projects", res |-> Result])
    /\ Log("me_with_workspaces", NoId, "failed")
    /\ UNCHANGED budget

\* Lines 365-367.
MeWithWorkspacesFails ==
    /\ frame.pc = "me_with_workspaces"
    /\ \E e \in Caught :
         /\ Failed(e)
         /\ Proceed([pc |-> "me", res |-> Result])
    /\ Log("me_with_workspaces", NoId, "failed")
    /\ UNCHANGED budget

\* Lines 368-369.
MeReturns ==
    /\ frame.pc = "me"
    /\ \E me \in MeData :
         /\ Proceed([pc |-> "projects", res |-> [Result EXCEPT !.me = me]])
         /\ LogValue("me", NoId, "ok", me)
    /\ Succeeded
    /\ UNCHANGED budget

\* Faulty variant of MeFails: the handler leaves a partly filled identity.
MeFailsPartial ==
    /\ frame.pc = "me"
    /\ \E e \in Caught :
         /\ Failed(e)
         /\ Proceed([pc |-> "projects",
                     res |-> [Result EXCEPT !.me = [id |-> None]]])
    /\ Log("me", NoId, "failed")
    /\ UNCHANGED budget

\* Lines 370-371.
MeFails ==
    /\ frame.pc = "me"
    /\ \E e \in Caught :
         /\ Failed(e)
         /\ Proceed([pc |-> "projects", res |-> Result])
    /\ Log("me", NoId, "failed")
    /\ UNCHANGED budget

\* Lines 374-383.
ProjectsReturns ==
    /\ frame.pc = "projects"
    /\ \E projects \in ProjectLists(budget) :
         /\ budget' = budget - Len(projects)
         /\ Proceed(ProjectLoop([Result EXCEPT !.projects = projects], 1))
         /\ LogValue("projects", NoId, "ok", projects)
    /\ Succeeded

\* Lines 376-383.
ProjectsFails ==
    /\ frame.pc = "projects"
    /\ \E e \in Caught :
         /\ Failed(e)
         /\ Proceed(ProjectLoop(Result, 1))
    /\ Log("projects", NoId, "failed")
    /\ UNCHANGED budget

\* Lines 385-388, then the next project.
DeploymentsReturns ==
    /\ frame.pc = "deployments"
    /\ \E deployments \in DeploymentLists :
         LET project_id == Result.projects[frame.i]
             res == [Result EXCEPT
                        !.deployments = Put(@, project_id, deployments)]
         IN  /\ LogValue("deployments", project_id, "ok", deployments)
             /\ Proceed(ProjectLoop(res, frame.i + 1))
    /\ Succeeded
    /\ UNCHANGED budget

\* Faulty variant of DeploymentsFails: the handler stores an empty list.
DeploymentsFailsStoresEmpty ==
    /\ frame.pc = "deployments"
    /\ \E e \in Caught :
         /\ Failed(e)
         /\ Proceed(ProjectLoop(
                [Result EXCEPT
                    !.deployments = Put(@, Result.projects[frame.i], << >>)],
                frame.i + 1))
    /\ Log("deployments", Result.projects[frame.i], "failed")
    /\ UNCHANGED budget

\* Lines 389-392, then the next project.
DeploymentsFails ==
    /\ frame.pc = "deployments"
    /\ \E e \in Caught :
         /\ Failed(e)
         /\ Proceed(ProjectLoop(Result, frame.i + 1))
    /\ Log("deployments", Result.projects[frame.i], "failed")
    /\ UNCHANGED budget

\* Lines 411-412: `total += stats.get(key, 0)` raises TypeError on null.
StatsRaise(stats) ==
    Get(stats, "credited", 0) = Null \/ Get(stats, "pending", 0) = Null

\* Lines 407-412, then the templates query of the same workspace.
ReferralInfoReturns ==
    /\ frame.pc = "referral_info"
    /\ \E referral_info \in ReferralInfos :
         LET ws_id == Result.workspaces[frame.j]
             res == [Result EXCEPT !.referrals = Put(@, ws_id, referral_info)]
             stats == Get(referral_info, "referralStats", EmptyMap)
             tot == [frame.tot EXCEPT
                        !.referrals_credited = @ + Get(stats, "credited", 0),
                        !.referrals_pending = @ + Get(stats, "pending", 0)]
         IN  IF StatsRaise(stats)
             THEN /\ Propagate("TypeError")
                  /\ LogValue("referral_info", ws_id, "TypeError", referral_info)
             ELSE /\ Proceed([pc |-> "workspace_templates", res |-> res,
                              tot |-> tot, j |-> frame.j])
                  /\ LogValue("referral_info", ws_id, "ok", referral_info)
    /\ Succeeded
    /\ UNCHANGED budget

\* Faulty variant of ReferralInfoFails: the handler stores an empty entry.
ReferralInfoFailsStoresEmpty ==
    /\ frame.pc = "referral_info"
    /\ \E e \in Caught :
         /\ Failed(e)
         /\ Proceed([pc |-> "workspace_templates",
                     res |-> [Result EXCEPT
                                 !.referrals =
                                     Put(@, Result.workspaces[frame.j], EmptyMap)],
                     tot |-> frame.tot, j |-> frame.j])
    /\ Log("referral_info", Result.workspaces[frame.j], "failed")
    /\ UNCHANGED budget

\* Lines 413-416, then the templates query of the same workspace.
ReferralInfoFails ==
    /\ frame.pc = "referral_info"
    /\ \E e \in Caught :
         /\ Failed(e)
         /\ Proceed([pc |-> "workspace_templates", res |-> Result,
                     tot |-> frame.tot, j |-> frame.j])
    /\ Log("referral_info", Result.workspaces[frame.j], "failed")
    /\ UNCHANGED budget

\* Lines 419-428, then the first template with an id, or the next workspace.
WorkspaceTemplatesReturns ==
    /\ frame.pc = "workspace_templates"
    /\ \E templates \in TemplateLists(budget) :
         /\ budget' = budget - Len(templates)
         /\ Proceed(TemplateLoop(Result, frame.tot, frame.j, templates, 1))
         /\ LogValue("workspace_templates", Result.workspaces[frame.j], "ok",
                     templates)
    /\ Succeeded

\* Lines 440-443, then the next workspace.
WorkspaceTemplatesFails ==
    /\ frame.pc = "workspace_templates"
    /\ \E e \in Caught :
         /\ Failed(e)
         /\ Proceed(WorkspaceLoop(Result, frame.tot, frame.j + 1))
    /\ Log("workspace_templates", Result.workspaces[frame.j], "failed")
    /\ UNCHANGED budget

\* Lines 430-433, then the next template.
TemplateMetricsReturns ==
    /\ frame.pc = "template_metrics"
    /\ \E metrics \in MetricsData :
         LET template_id == frame.templates[frame.k].id
             res == [Result EXCEPT
                        !.template_metrics = Put(@, template_id, metrics)]
             tot == [frame.tot EXCEPT
                        !.templates_30d =
                            @ + Or0(Get(metrics, "earningsLast30Days", 0)),
                        !.templates_total =
                            @ + Or0(Get(metrics, "totalEarnings", 0))]
         IN  /\ LogValue("template_metrics", template_id, "ok", metrics)
             /\ Proceed(TemplateLoop(res, tot, frame.j, frame.templates,
                                     frame.k + 1))
    /\ Succeeded
    /\ UNCHANGED budget

\* Faulty variant of TemplateMetricsFails: the failure ends the loop over the
\* templates of the workspace.
TemplateMetricsFailsLeavesLoop ==
    /\ frame.pc = "template_metrics"
    /\ \E e \in Caught :
         /\ Failed(e)
         /\ Proceed(WorkspaceLoop(Result, frame.tot, frame.j + 1))
    /\ Log("template_metrics", frame.templates[frame.k].id, "failed")
    /\ UNCHANGED budget

\* Lines 434-439, then the next template.
TemplateMetricsFails ==
    /\ frame.pc = "template_metrics"
    /\ \E e \in Caught :
         /\ Failed(e)
         /\ Proceed(TemplateLoop(Result, frame.tot, frame.j, frame.templates,
                                 frame.k + 1))
    /\ Log("template_metrics", frame.templates[frame.k].id, "failed")
    /\ UNCHANGED budget

\* The argument of the query the call is suspended at.
QueryArgument ==
    CASE frame.pc = "deployments" -> Result.projects[frame.i]
      [] frame.pc \in {"referral_info", "workspace_templates"} ->
             Result.workspaces[frame.j]
      [] frame.pc = "template_metrics" -> frame.templates[frame.k].id
      [] OTHER -> NoId

\* The awaited query raises an exception that no branch catches: the total
\* timeout of the request (REQUEST_TIMEOUT, line 13) is not an
\* aiohttp.ClientError (line 267) and leaves _execute_query as it is.
QueryRaises ==
    /\ frame.pc # "idle"
    /\ \E e \in (RailwayErrors \cup TransportErrors) \ Caught :
         /\ Propagate(e)
         /\ Log(frame.pc, QueryArgument, e)
    /\ UNCHANGED <<budget, allFailedWith>>

Next ==
    \/ SetupEntry
    \/ ScheduledRefresh
    \/ MeWithWorkspacesReturns
    \/ MeWithWorkspacesFails
    \/ MeReturns
    \/ MeFails
    \/ ProjectsReturns
    \/ ProjectsFails
    \/ DeploymentsReturns
    \/ DeploymentsFails
    \/ ReferralInfoReturns
    \/ ReferralInfoFails
    \/ WorkspaceTemplatesReturns
    \/ WorkspaceTemplatesFails
    \/ TemplateMetricsReturns
    \/ TemplateMetricsFails
    \/ QueryRaises

Spec == Init /\ [][Next]_vars

(***************************************************************************)
(* The coordinator around a client whose async_get_all_data is a test      *)
(* double: it returns some snapshot or raises some exception. This is the  *)
(* specification of _async_update_data as a function of the outcome of     *)
(* the call of line 45.                                                    *)
(***************************************************************************)
ClientSnapshots(b) ==
    {[InitialResult EXCEPT !.me = User, !.projects = ps] : ps \in ProjectLists(b)}

ClientReturns ==
    /\ frame.pc # "idle"
    /\ \E res \in ClientSnapshots(budget) :
         /\ budget' = budget - Len(res.projects)
         /\ RefreshReturned(frame.res, res)
    /\ frame' = Idle
    /\ Log("async_get_all_data", NoId, "ok")
    /\ UNCHANGED <<allFailedWith, call, remote, flowVars>>

ClientRaises ==
    /\ frame.pc # "idle"
    /\ \E e \in RailwayErrors \cup TransportErrors :
         /\ Propagate(e)
         /\ Log("async_get_all_data", NoId, e)
    /\ UNCHANGED <<budget, allFailedWith>>

AdapterNext ==
    \/ SetupEntry
    \/ ScheduledRefresh
    \/ ClientReturns
    \/ ClientRaises

AdapterSpec == Init /\ [][AdapterNext]_vars

(***************************************************************************)
(* RailwayApiClient seen one method call at a time: the headers, the POST  *)
(* of _execute_query and what the method makes of its outcome              *)
(* (api.py 192-335). Text is a sequence of characters.                     *)
(***************************************************************************)
\* Number of entries of the `errors` array of a response.
MaxErrors == 2

\* response_text[:500], api.py line 233
TruncateAt == 500

\* str.lower(), one character
LowerChar(c) ==
    CASE c = "A" -> "a"
      [] c = "B" -> "b"
      [] c = "C" -> "c"
      [] c = "D" -> "d"
      [] c = "E" -> "e"
      [] c = "F" -> "f"
      [] c = "G" -> "g"
      [] c = "H" -> "h"
      [] c = "I" -> "i"
      [] c = "J" -> "j"
      [] c = "K" -> "k"
      [] c = "L" -> "l"
      [] c = "M" -> "m"
      [] c = "N" -> "n"
      [] c = "O" -> "o"
      [] c = "P" -> "p"
      [] c = "Q" -> "q"
      [] c = "R" -> "r"
      [] c = "S" -> "s"
      [] c = "T" -> "t"
      [] c = "U" -> "u"
      [] c = "V" -> "v"
      [] c = "W" -> "w"
      [] c = "X" -> "x"
      [] c = "Y" -> "y"
      [] c = "Z" -> "z"
      [] OTHER -> c

\* msg.lower()
Lower(s) == [i \in DOMAIN s |-> LowerChar(s[i])]

\* `sub in s`
Contains(sub, s) ==
    \E i \in 1..(Len(s) - Len(sub) + 1) : SubSeq(s, i, i + Len(sub) - 1) = sub

\* sep.join(strs)
RECURSIVE Join(_, _)
Join(strs, sep) ==
    IF Len(strs) = 0 THEN << >>
    ELSE IF Len(strs) = 1 THEN strs[1]
    ELSE strs[1] \o sep \o Join(Tail(strs), sep)

\* The substrings of lines 256-258.
AuthWords ==
    {<<"a", "u", "t", "h">>,
     <<"u", "n", "a", "u", "t", "h", "o", "r", "i", "z", "e", "d">>,
     <<"n", "o", "t", " ", "a", "u", "t", "h", "e", "n", "t", "i", "c", "a", "t", "e", "d">>}

\* Entries of the `errors` array: with a message, or without one.
ErrorObjects ==
    {[message |-> <<"N", "o", "t", " ", "A", "u", "t", "h", "o", "r", "i", "z", "e", "d">>],
     [message |-> <<"U", "N", "A", "U", "T", "H", "O", "R", "I", "Z", "E", "D">>],
     [message |-> <<"N", "o", "t", " ", "a", "u", "t", "h", "e", "n", "t", "i", "c", "a", "t", "e", "d">>],
     [message |-> <<"R", "a", "t", "e", " ", "l", "i", "m", "i", "t">>],
     [message |-> << >>],
     [code |-> <<"E", "1">>]}

ErrorLists == SeqUpTo(MaxErrors, ErrorObjects)

\* str(e) of an entry without a message: the repr of the dict.
Str(e) == <<"{", "'", "c", "o", "d", "e", "'", ":", " ", "'">> \o e.code \o <<"'", "}">>

\* e.get("message", str(e)), line 251
ErrorMessage(e) == IF "message" \in DOMAIN e THEN e.message ELSE Str(e)

\* The `data` object of a response: for each accessor a value with its
\* top-level field, with the field empty, and (any other value) without it.
DataMaps ==
    {EmptyMap,
     [me |-> User],
     [me |-> [id |-> "", name |-> "Ann"]],
     [me |-> EmptyMap],
     [projects |-> [edges |-> <<[node |-> [id |-> "p1"]], [node |-> [id |-> "p2"]]>>]],
     [projects |-> EmptyMap],
     [project |-> [services |-> [edges |->
         <<[node |-> [id |-> "s1", name |-> "web", deployments |-> [edges |->
               <<[node |-> [id |-> "d1", status |-> "SUCCESS"]]>>]]],
           [node |-> [id |-> "s2", name |-> "db"]]>>]]],
     [project |-> EmptyMap],
     [workspaceTemplates |-> [edges |-> <<[node |-> [id |-> "t1", totalPayout |-> 1]]>>]],
     [workspaceTemplates |-> EmptyMap],
     [templateMetrics |-> [earningsLast30Days |-> 1, totalEarnings |-> 1]],
     [referralInfo |-> [referralStats |-> [credited |-> 1, pending |-> 1]]]}

\* The parsed JSON body: {data?: object, errors?: [...]}.
Bodies ==
    {[data |-> d] : d \in DataMaps}
        \cup {EmptyMap}
        \cup {[errors |-> es] : es \in ErrorLists}
        \cup {[data |-> d, errors |-> es] :
                d \in {EmptyMap, [me |-> User]}, es \in ErrorLists}

\* response.json(): it raises on a body that is not JSON, or gives the body.
JsonBodies == {[valid |-> FALSE]} \cup {[valid |-> TRUE, body |-> b] : b \in Bodies}

\* A response text of n characters (character i is i).
Text(n) == [i \in 1..n |-> i]
Texts == {Text(0), Text(3), Text(TruncateAt), Text(TruncateAt + 1), Text(TruncateAt + 3)}

Statuses == {200, 201, 401, 403, 404, 500}

Responses ==
    {[status |-> s, text |-> t, json |-> [valid |-> FALSE]] :
        s \in Statuses, t \in Texts}
      \cup {[status |-> s, text |-> Text(3), json |-> j] :
              s \in Statuses, j \in JsonBodies}

\* Exceptions of session.post() and response.text(): the subclasses of
\* aiohttp.ClientError, and the expiry of the total timeout of REQUEST_TIMEOUT
\* (line 13), which aiohttp raises as asyncio.TimeoutError.
ClientErrors ==
    {"ClientConnectorError", "ServerDisconnectedError", "ClientPayloadError",
     "ServerTimeoutError"}
PostErrors == ClientErrors \cup TransportErrors

TokenTypes == {"personal", "team", "Team", ""}

\* Faulty variant of GetHeaders: the bearer header is always set.
GetHeadersAlwaysBearer(token_type, token) ==
    IF token_type = "team"
    THEN ("Content-Type" :> "application/json")
             @@ ("Team-Access-Token" :> token)
             @@ ("Authorization" :> <<"Bearer", token>>)
    ELSE ("Content-Type" :> "application/json")
             @@ ("Authorization" :> <<"Bearer", token>>)

\* _get_headers, lines 192-202
GetHeaders(token_type, token) ==
    IF token_type = "team"
    THEN ("Content-Type" :> "application/json") @@ ("Team-Access-Token" :> token)
    ELSE ("Content-Type" :> "application/json")
             @@ ("Authorization" :> <<"Bearer", token>>)

Raise(exc, message) == [raises |-> exc, message |-> message]
Return(value) == [returns |-> value]
Raised(r) == "raises" \in DOMAIN r

\* Faulty variant of GraphQLErrors: the messages are not lowercased.
GraphQLErrorsCaseSensitive(errors) ==
    LET error_messages == [i \in DOMAIN errors |-> ErrorMessage(errors[i])]
        error_str == Join(error_messages, <<";", " ">>)
    IN  IF \E i \in DOMAIN error_messages :
               \E w \in AuthWords : Contains(w, error_messages[i])
        THEN Raise("RailwayAuthError", [body |-> error_str])
        ELSE Raise("RailwayApiError",
                   [text |-> "GraphQL errors: ", body |-> error_str])

\* Lines 249-263: the body has `errors`.
GraphQLErrors(errors) ==
    LET error_messages == [i \in DOMAIN errors |-> ErrorMessage(errors[i])]
        error_str == Join(error_messages, <<";", " ">>)
    IN  IF \E i \in DOMAIN error_messages :
               \E w \in AuthWords : Contains(w, Lower(error_messages[i]))
        THEN Raise("RailwayAuthError", [body |-> error_str])
        ELSE Raise("RailwayApiError",
                   [text |-> "GraphQL errors: ", body |-> error_str])

\* Faulty variant of HandleResponse: the errors of the body are looked at
\* before the status, and the body is not truncated.
HandleResponseBodyFirst(response) ==
    IF response.json.valid /\ "errors" \in DOMAIN response.json.body
    THEN GraphQLErrors(response.json.body.errors)
    ELSE IF response.status \in {401, 403}
    THEN Raise("RailwayAuthError", [text |-> "Invalid API token"])
    ELSE IF response.status # 200
    THEN Raise("RailwayApiError",
               [text |-> "API request failed with status",
                status |-> response.status, body |-> response.text])
    ELSE IF ~response.json.valid
    THEN Raise("RailwayApiError", [text |-> "Invalid JSON response"])
    ELSE Return(Get(response.json.body, "data", EmptyMap))

\* Lines 223-265: a response has arrived.
HandleResponse(response) ==
    IF response.status = 401
    THEN Raise("RailwayAuthError", [text |-> "Invalid API token"])
    ELSE IF response.status = 403
    THEN Raise("RailwayAuthError", [text |-> "Access denied"])
    ELSE IF response.status # 200
    THEN LET response_text == response.text
             truncated_response ==
                 IF Len(response_text) > TruncateAt
                 THEN SubSeq(response_text, 1, TruncateAt)
                 ELSE response_text
         IN  Raise("RailwayApiError",
                   [text |-> "API request failed with status",
                    status |-> response.status, body |-> truncated_response])
    ELSE IF ~response.json.valid
    THEN Raise("RailwayApiError", [text |-> "Invalid JSON response"])
    ELSE LET json == response.json.body
         IN  IF "errors" \in DOMAIN json
             THEN GraphQLErrors(json.errors)
             ELSE Return(Get(json, "data", EmptyMap))

\* _execute_query, lines 216-269. `post` is the response, or the exception
\* the POST raised: only an aiohttp.ClientError is caught (line 267).
ExecuteQuery(post) ==
    IF Raised(post)
    THEN IF post.raises \in ClientErrors
         THEN Raise("RailwayConnectionError",
                    [text |-> "Connection error: ", err |-> post.raises])
         ELSE Raise(post.raises, [err |-> post.raises])
    ELSE HandleResponse(post)

\* [edge["node"] for edge in edges]
Nodes(edges) == [i \in DOMAIN edges |-> edges[i].node]

\* Lines 296-301: the deployments of one service, each with the service's
\* name and id.
ServiceDeployments(service) ==
    LET deployment_edges ==
            Get(Get(service, "deployments", EmptyMap), "edges", << >>)
    IN  [i \in DOMAIN deployment_edges |->
            Put(Put(deployment_edges[i].node, "service_name", service.name),
                "service_id", service.id)]

\* Lines 293-303
RECURSIVE FlattenDeployments(_)
FlattenDeployments(services) ==
    IF Len(services) = 0 THEN << >>
    ELSE ServiceDeployments(services[1].node)
             \o FlattenDeployments(Tail(services))

Accessors ==
    {"async_get_me", "async_get_me_with_workspaces", "async_get_projects",
     "async_get_deployments", "async_get_workspace_templates",
     "async_get_template_metrics", "async_get_referral_info"}

\* The top-level field of `data` each accessor reads.
Field(op) ==
    CASE op \in {"async_get_me", "async_get_me_with_workspaces"} -> "me"
      [] op = "async_get_projects" -> "projects"
      [] op = "async_get_deployments" -> "project"
      [] op = "async_get_workspace_templates" -> "workspaceTemplates"
      [] op = "async_get_template_metrics" -> "templateMetrics"
      [] op = "async_get_referral_info" -> "referralInfo"

\* Faulty variant of Accessor: the field is indexed (data["me"]), not read
\* with a default.
AccessorIndexes(op, d) ==
    IF Field(op) \notin DOMAIN d
    THEN Raise("KeyError", [err |-> Field(op)])
    ELSE IF op \in {"async_get_projects", "async_get_workspace_templates"}
    THEN Return(Nodes(Get(d[Field(op)], "edges", << >>)))
    ELSE IF op = "async_get_deployments"
    THEN Return(FlattenDeployments(
                    Get(Get(d[Field(op)], "services", EmptyMap), "edges", << >>)))
    ELSE Return(d[Field(op)])

\* Lines 271-303 and 313-335: what each accessor returns for the data that
\* _execute_query returned.
Accessor(op, d) ==
    IF op \in {"async_get_projects", "async_get_workspace_templates"}
    THEN Return(Nodes(Get(Get(d, Field(op), EmptyMap), "edges", << >>)))
    ELSE IF op = "async_get_deployments"
    THEN Return(FlattenDeployments(
                    Get(Get(Get(d, Field(op), EmptyMap), "services", EmptyMap),
                        "edges", << >>)))
    ELSE Return(Get(d, Field(op), EmptyMap))

\* bool(me.get("id")), line 309
Truthy(v) == v \notin {None, ""}

\* Faulty variant of ValidateToken: only RailwayAuthError is caught.
ValidateTokenCatchesAuth(r) ==
    IF Raised(r)
    THEN IF r.raises = "RailwayAuthError" THEN Return(FALSE) ELSE r
    ELSE Return(Truthy(Get(Get(r.returns, "me", EmptyMap), "id", None)))

\* async_validate_token, lines 305-311; r is the outcome of _execute_query
\* inside async_get_me.
ValidateToken(r) ==
    IF Raised(r)
    THEN IF r.raises \in RailwayErrors THEN Return(FALSE) ELSE r
    ELSE Return(Truthy(Get(Get(r.returns, "me", EmptyMap), "id", None)))

Methods == Accessors \cup {"async_validate_token"}

\* A method of the client on the outcome r of its _execute_query call.
ClientMethod(op, r) ==
    IF op = "async_validate_token" THEN ValidateToken(r)
    ELSE IF Raised(r) THEN r
    ELSE Accessor(op, r.returns)

aggregatorVars ==
    <<heap, data, last_update_success, entry_state, signal, frame, budget,
      queries, allFailedWith, remote, entries, update_interval, flow,
      listener_calls>>

\* A method is called on a client made with token_type: _execute_query
\* builds the headers and awaits the POST.
ClientCall ==
    /\ call.pc \in {"idle", "done"}
    /\ \E op \in Methods, token_type \in TokenTypes :
         call' = [pc |-> "post", op |-> op, token_type |-> token_type,
                  headers |-> GetHeaders(token_type, "token")]
    /\ UNCHANGED aggregatorVars

Complete(post) ==
    LET r == ExecuteQuery(post)
    IN  call' = [pc |-> "done", op |-> call.op, token_type |-> call.token_type,
                 headers |-> call.headers, post |-> post, query |-> r,
                 outcome |-> ClientMethod(call.op, r)]

\* The remote answers.
PostResponds ==
    /\ call.pc = "post"
    /\ \E response \in Responses : Complete(response)
    /\ UNCHANGED aggregatorVars

\* The POST, or the reading of the response, raises.
PostRaises ==
    /\ call.pc = "post"
    /\ \E e \in PostErrors : Complete([raises |-> e])
    /\ UNCHANGED aggregatorVars

ClientNext ==
    \/ ClientCall
    \/ PostResponds
    \/ PostRaises

ClientSpec == Init /\ [][ClientNext]_vars

(***************************************************************************)
(* async_get_all_data called again and again against a remote whose state  *)
(* does not change: every query has one answer, fixed at the start, and a  *)
(* step of the call is taken only with the answer the remote has for the   *)
(* query awaited.                                                          *)
(***************************************************************************)
\* List elements the remote returns over a run: enough for two cycles.
ReplayBudget == MaxItems + 2

Answer(val) == [out |-> "ok", val |-> val]
Failure == [out |-> "failed"]
Timeout == [out |-> "TimeoutError"]

\* The states of the remote: an answer for each query, by accessor and
\* argument.
Remotes ==
    {(<<"me_with_workspaces", NoId>> :> mw) @@ (<<"me", NoId>> :> me)
        @@ (<<"projects", NoId>> :> ps) @@ (<<"deployments", "p1">> :> d1)
        @@ (<<"referral_info", "w1">> :> r1) @@ (<<"referral_info", "w2">> :> r2)
        @@ (<<"workspace_templates", "w1">> :> t1)
        @@ (<<"workspace_templates", "w2">> :> t2)
        @@ (<<"template_metrics", "t1">> :> m1) :
        mw \in {Failure, Answer(User)}
                 \cup {Answer([id |-> "u1", name |-> "Ann",
                               email |-> "ann@example.org", workspaces |-> ws]) :
                         ws \in {<<"w1">>, <<"w1", "w1">>, <<"w1", "w2">>}},
        me \in {Failure, Answer(User)},
        ps \in {Failure, Timeout, Answer(<< >>), Answer(<<"p1">>)},
        d1 \in {Failure, Answer(<<"SUCCESS">>)},
        r1 \in {Failure, Answer([referralStats |-> [credited |-> 1]]),
                Answer([referralStats |-> [credited |-> Null]])},
        r2 \in {Failure, Answer([referralStats |-> [pending |-> 1]])},
        t1 \in {Failure, Answer(<< >>),
                Answer(<<[id |-> "t1", totalPayout |-> 1]>>)},
        t2 \in {Failure, Answer(<< >>)},
        m1 \in {Failure,
                Answer([earningsLast30Days |-> 1, totalEarnings |-> Null])}}

\* The query that has just been logged got the answer the remote has for it.
Answered ==
    LET e == queries'[Len(queries')]
        key == <<e.q, e.arg>>
    IN  /\ key \in DOMAIN remote
        /\ IF "val" \in DOMAIN e
           THEN remote[key] = Answer(e.val)
           ELSE remote[key] = [out |-> e.out]

ReplayInit ==
    /\ heap = [r \in Refs |-> NoSnapshot]
    /\ data = NoRef
    /\ last_update_success = TRUE
    /\ entry_state = "not_loaded"
    /\ signal = "none"
    /\ frame = Idle
    /\ budget = ReplayBudget
    /\ queries = << >>
    /\ allFailedWith = "n/a"
    /\ call = NoCall
    /\ remote \in Remotes
    /\ entries = ConfiguredEntries
    /\ update_interval = NoInterval
    /\ flow = NoFlow
    /\ listener_calls = 0

ReplayNext ==
    \/ SetupEntry
    \/ ScheduledRefresh
    \/ MeWithWorkspacesReturns /\ Answered
    \/ MeWithWorkspacesFails /\ Answered
    \/ MeReturns /\ Answered
    \/ MeFails /\ Answered
    \/ ProjectsReturns /\ Answered
    \/ ProjectsFails /\ Answered
    \/ DeploymentsReturns /\ Answered
    \/ DeploymentsFails /\ Answered
    \/ ReferralInfoReturns /\ Answered
    \/ ReferralInfoFails /\ Answered
    \/ WorkspaceTemplatesReturns /\ Answered
    \/ WorkspaceTemplatesFails /\ Answered
    \/ TemplateMetricsReturns /\ Answered
    \/ TemplateMetricsFails /\ Answered
    \/ QueryRaises /\ Answered

ReplaySpec == ReplayInit /\ [][ReplayNext]_vars

(***************************************************************************)
(* The config flows (config_flow.py) and the options-update listener       *)
(* (__init__.py 62-70) around one coordinator, whose client is the test    *)
(* double of AdapterSpec.                                                  *)
(***************************************************************************)
\* Calls of the update listener that may be waiting to run.
MaxListenerCalls == 2

\* SCAN_INTERVAL_OPTIONS, config_flow.py 50-56: the values of the selector,
\* and the same numbers stored as integers.
ScanIntervalValues ==
    {StrValue(<<"5">>), StrValue(<<"1", "0">>), StrValue(<<"1", "5">>),
     StrValue(<<"3", "0">>), StrValue(<<"6", "0">>),
     IntValue(5), IntValue(10), IntValue(15), IntValue(30), IntValue(60)}

\* What client.async_get_me() gives a flow step: `me`, or an exception.
FlowMeData ==
    {User,
     [id |-> "u2", email |-> "bob@example.org"],
     [id |-> "", name |-> "Ann"],
     EmptyMap}
IdentityOutcomes ==
    {Return(me) : me \in FlowMeData}
        \cup {[raises |-> e] : e \in RailwayErrors \cup TransportErrors}

\* user_input of the user and reauth steps: STEP_USER_DATA_SCHEMA, lines 33-48.
NoInput == << >>
UserInputs(api_token) ==
    {[api_token |-> api_token, token_type |-> t] : t \in {"personal", "team"}}
        \cup {[api_token |-> api_token]}

\* me.get("name") or me.get("email", "Railway Account"), line 88
AccountName(me) ==
    IF Truthy(Get(me, "name", None)) THEN me.name
    ELSE Get(me, "email", "Railway Account")

\* Faulty variant of FlowError: every exception is taken for a rejected token.
FlowErrorAlwaysAuth(exc) == "invalid_auth"

\* The except clauses of lines 110-118 and 165-171.
FlowError(exc) ==
    CASE exc = "RailwayAuthError" -> "invalid_auth"
      [] exc = "RailwayConnectionError" -> "cannot_connect"
      [] OTHER -> "unknown"

\* async_show_form(step_id=..., errors=errors); `out` and `id` record how the
\* identity query of the step ended.
ShowForm(step_id, error, out, id) ==
    [type |-> "form", step_id |-> step_id,
     errors |-> IF error = "" THEN EmptyMap ELSE [base |-> error],
     out |-> out, id |-> id]

Outcome(r) == IF Raised(r) THEN r.raises ELSE "ok"

\* async_step_user, config_flow.py 70-127. _abort_if_unique_id_configured
\* raises AbortFlow inside the try block (line 98), an Exception that the
\* clause of line 116 catches.
StepUser ==
    /\ \E user_input \in UserInputs("token") \cup {NoInput},
          r \in IdentityOutcomes :
         IF user_input = NoInput
         THEN /\ flow' = ShowForm("user", "", "none", None)
              /\ UNCHANGED entries
         ELSE LET api_token == user_input[CONF_API_TOKEN]
                  token_type == Get(user_input, CONF_TOKEN_TYPE, "personal")
              IN  IF Raised(r)
                  THEN /\ flow' = ShowForm("user", FlowError(r.raises),
                                           r.raises, None)
                       /\ UNCHANGED entries
                  ELSE LET me == r.returns
                           account_id == Get(me, "id", None)
                           account_name == AccountName(me)
                       IN  IF ~Truthy(account_id)
                           THEN /\ flow' = ShowForm("user", "invalid_auth",
                                                    "ok", account_id)
                                /\ UNCHANGED entries
                           ELSE IF account_id \in DOMAIN entries
                           THEN /\ flow' = ShowForm("user", FlowError("AbortFlow"),
                                                    "ok", account_id)
                                /\ UNCHANGED entries
                           ELSE /\ flow' = [type |-> "create_entry",
                                            step_id |-> "user",
                                            title |-> account_name,
                                            out |-> "ok", id |-> account_id]
                                /\ entries' =
                                     Put(entries, account_id,
                                         [data |-> EntryData(api_token, token_type,
                                                             account_id,
                                                             account_name),
                                          options |-> EmptyMap])
    /\ UNCHANGED <<heap, data, last_update_success, entry_state, signal, frame,
                   budget, queries, allFailedWith, call, remote,
                   update_interval, listener_calls>>

\* Faulty variant of ReauthData: the data is built from the input alone.
ReauthDataInputOnly(entry_data, api_token, token_type) ==
    [api_token |-> api_token, token_type |-> token_type]

\* Lines 158-162: {**reauth_entry.data, CONF_API_TOKEN: ..., CONF_TOKEN_TYPE: ...}
ReauthData(entry_data, api_token, token_type) ==
    Put(Put(entry_data, CONF_API_TOKEN, api_token), CONF_TOKEN_TYPE, token_type)

\* async_step_reauth_confirm, config_flow.py 135-177, for the entry that
\* waits for new credentials. async_update_reload_and_abort stores the data
\* and reloads the entry: the coordinator is dropped and async_setup_entry
\* makes a new one.
StepReauthConfirm ==
    /\ AccountId \in DOMAIN entries
    /\ entry_state \in {"setup_error", "reauth"}
    /\ frame = Idle
    /\ \E user_input \in UserInputs("token2") \cup {NoInput},
          r \in IdentityOutcomes :
         LET fails(error, id) ==
                 /\ flow' = ShowForm("reauth_confirm", error, Outcome(r), id)
                 /\ UNCHANGED <<entries, heap, data, last_update_success,
                                entry_state, update_interval, listener_calls>>
         IN  IF user_input = NoInput
             THEN /\ flow' = ShowForm("reauth_confirm", "", "none", None)
                  /\ UNCHANGED <<entries, heap, data, last_update_success,
                                 entry_state, update_interval, listener_calls>>
             ELSE IF Raised(r) THEN fails(FlowError(r.raises), None)
             ELSE IF ~Truthy(Get(r.returns, "id", None))
             THEN fails("invalid_auth", Get(r.returns, "id", None))
             ELSE /\ entries' =
                       [entries EXCEPT ![AccountId].data =
                           ReauthData(@, user_input[CONF_API_TOKEN],
                                      Get(user_input, CONF_TOKEN_TYPE, "personal"))]
                  /\ flow' = [type |-> "abort", step_id |-> "reauth_confirm",
                              reason |-> "reauth_successful",
                              out |-> "ok", id |-> r.returns.id]
                  /\ entry_state' = "not_loaded"
                  /\ heap' = [ref \in Refs |-> NoSnapshot]
                  /\ data' = NoRef
                  /\ last_update_success' = TRUE
                  /\ update_interval' = NoInterval
                  /\ listener_calls' = 0
    /\ UNCHANGED <<signal, frame, budget, queries, allFailedWith, call, remote>>

\* The update listener is registered (line 57) while the entry is set up.
ListenerRegistered == entry_state \in {"loaded", "reauth"}

\* RailwayOptionsFlowHandler.async_step_init, config_flow.py 187-213, with
\* input: the options of the entry become user_input, and a change of them
\* calls the update listener.
OptionsStepInit ==
    /\ AccountId \in DOMAIN entries
    /\ listener_calls < MaxListenerCalls
    /\ \E v \in ScanIntervalValues :
         LET user_input == (CONF_SCAN_INTERVAL :> v)
         IN  /\ entries' = [entries EXCEPT ![AccountId].options = user_input]
             /\ flow' = [type |-> "create_entry", step_id |-> "init",
                         title |-> "", out |-> "none", id |-> None]
             /\ listener_calls' =
                    IF ListenerRegistered /\ entries[AccountId].options # user_input
                    THEN listener_calls + 1 ELSE listener_calls
    /\ UNCHANGED <<heap, data, last_update_success, entry_state, signal, frame,
                   budget, queries, allFailedWith, call, remote, update_interval>>

\* coordinator.async_request_refresh(): a refresh starts unless a cycle is
\* running.
RequestRefresh ==
    IF frame = Idle
    THEN /\ budget > 0
         /\ budget' = budget - 1
         /\ StartCall
    ELSE UNCHANGED <<heap, data, last_update_success, signal, frame, budget,
                     queries, allFailedWith, call, remote>>

\* _async_update_listener, __init__.py 62-70
UpdateListener ==
    /\ listener_calls > 0
    /\ ListenerRegistered
    /\ listener_calls' = listener_calls - 1
    /\ LET new_interval == GetScanInterval(entries[AccountId])
       IN  IF update_interval # new_interval
           THEN /\ update_interval' = new_interval
                /\ RequestRefresh
           ELSE UNCHANGED <<heap, data, last_update_success, signal, frame,
                            budget, queries, allFailedWith, call, remote,
                            update_interval>>
    /\ UNCHANGED <<entries, flow, entry_state>>

\* Home Assistant has been started; the account is not configured yet, or it
\* is, with or without a stored scan interval.
FlowEntries ==
    {EmptyMap}
        \cup {[ConfiguredEntries EXCEPT ![AccountId].options = o] :
                 o \in {EmptyMap, [scan_interval |-> StrValue(<<"3", "0">>)]}}

FlowInit ==
    /\ heap = [r \in Refs |-> NoSnapshot]
    /\ data = NoRef
    /\ last_update_success = TRUE
    /\ entry_state = "not_loaded"
    /\ signal = "none"
    /\ frame = Idle
    /\ budget = MaxItems
    /\ queries = << >>
    /\ allFailedWith = "n/a"
    /\ call = NoCall
    /\ remote = NoRemote
    /\ entries \in FlowEntries
    /\ update_interval = NoInterval
    /\ flow = NoFlow
    /\ listener_calls = 0

FlowNext ==
    \/ StepUser
    \/ StepReauthConfirm
    \/ SetupEntry
    \/ ScheduledRefresh
    \/ ClientReturns
    \/ ClientRaises

FlowSpec == FlowInit /\ [][FlowNext]_vars

\* The options flow and the update listener of the configured account.
OptionsNext ==
    \/ OptionsStepInit
    \/ UpdateListener
    \/ SetupEntry
    \/ ScheduledRefresh
    \/ ClientReturns
    \/ ClientRaises

OptionsSpec == Init /\ [][OptionsNext]_vars

(***************************************************************************)
(* The entities, seen one evaluation of a property at a time               *)
(* (sensor.py 26-68, binary_sensor.py 77-80 and 106-186). `call` holds the *)
(* evaluation with its inputs. Text is a sequence of characters.           *)
(***************************************************************************)
\* Deployments per project, and workspaces per snapshot, of an evaluation.
MaxShown == 2

\* str.upper(), one character
UpperChar(c) ==
    CASE c = "a" -> "A"
      [] c = "b" -> "B"
      [] c = "c" -> "C"
      [] c = "d" -> "D"
      [] c = "e" -> "E"
      [] c = "f" -> "F"
      [] c = "g" -> "G"
      [] c = "h" -> "H"
      [] c = "i" -> "I"
      [] c = "j" -> "J"
      [] c = "k" -> "K"
      [] c = "l" -> "L"
      [] c = "m" -> "M"
      [] c = "n" -> "N"
      [] c = "o" -> "O"
      [] c = "p" -> "P"
      [] c = "q" -> "Q"
      [] c = "r" -> "R"
      [] c = "s" -> "S"
      [] c = "t" -> "T"
      [] c = "u" -> "U"
      [] c = "v" -> "V"
      [] c = "w" -> "W"
      [] c = "x" -> "X"
      [] c = "y" -> "Y"
      [] c = "z" -> "Z"
      [] OTHER -> c

\* str.upper()
Upper(chars) == [i \in DOMAIN chars |-> UpperChar(chars[i])]

\* A property that returns None, a bool, a number.
NoValue == [none |-> TRUE]
BoolValue(b) == [bool |-> b]

\* HEALTHY_STATUSES, binary_sensor.py line 106
HEALTHY_STATUSES ==
    {<<"S", "U", "C", "C", "E", "S", "S">>,
     <<"R", "U", "N", "N", "I", "N", "G">>,
     <<"D", "E", "P", "L", "O", "Y", "I", "N", "G">>}

\* The status of a deployment as the remote spells it, or as it might.
DeploymentStatuses ==
    {<<"S", "U", "C", "C", "E", "S", "S">>,
     <<"s", "u", "c", "c", "e", "s", "s">>,
     <<"R", "u", "n", "n", "i", "n", "g">>,
     <<"D", "E", "P", "L", "O", "Y", "I", "N", "G">>,
     <<"F", "A", "I", "L", "E", "D">>,
     <<"c", "r", "a", "s", "h", "e", "d">>}

\* A deployment of the flattened list, reduced to its status, or without one.
ShownDeployments == {EmptyMap} \cup {[status |-> st] : st \in DeploymentStatuses}

\* coordinator.data for the health sensor of a project: None, a snapshot
\* without the deployments key, and snapshots whose mapping has no key, a key
\* for the project, or a key for another project.
HealthSnapshots ==
    {NoSnapshot, [projects |-> <<"p1">>], [deployments |-> EmptyMap],
     [deployments |-> ("p2" :> <<[status |-> <<"S", "U", "C", "C", "E", "S", "S">>]>>)]}
        \cup {[deployments |-> ("p1" :> ds)] :
                 ds \in SeqUpTo(MaxShown, ShownDeployments)}

\* Faulty variant of ProjectHealthAvailable: available when the project has
\* deployments.
ProjectHealthAvailableNonEmpty(success, d, project_id) ==
    IF ~success \/ d = NoSnapshot THEN FALSE
    ELSE Get(Get(d, "deployments", EmptyMap), project_id, << >>) # << >>

\* RailwayProjectHealthSensor.available, binary_sensor.py 180-186;
\* super().available is coordinator.last_update_success.
ProjectHealthAvailable(success, d, project_id) ==
    IF ~success \/ d = NoSnapshot THEN FALSE
    ELSE project_id \in DOMAIN Get(d, "deployments", EmptyMap)

\* RailwayProjectHealthSensor.is_on, binary_sensor.py 129-147
ProjectHealthIsOn(d, project_id) ==
    IF d = NoSnapshot THEN NoValue
    ELSE LET deployments == Get(Get(d, "deployments", EmptyMap), project_id, << >>)
         IN  IF deployments = << >> THEN NoValue
             ELSE BoolValue(\A n \in DOMAIN deployments :
                                Upper(Get(deployments[n], "status", << >>))
                                    \in HEALTHY_STATUSES)

\* RailwayApiConnectedSensor.is_on, binary_sensor.py 77-80
ApiConnectedIsOn(success, d) == success /\ d # NoSnapshot

\* The customer of a workspace: amounts, null or missing.
Amounts == {Null, 0, 5}
Customers ==
    UNION {[S -> Amounts] : S \in SUBSET {"creditBalance", "currentUsage"}}
        \cup {[remainingUsageCreditBalance |-> 5]}
ShownWorkspaces ==
    {[id |-> "w1"]} \cup {[id |-> "w1", customer |-> c] : c \in Customers}

\* The snapshots of an evaluation of a total: without the workspaces key, or
\* with a list of workspaces.
TotalSnapshots ==
    {[projects |-> << >>]}
        \cup {[workspaces |-> ws] : ws \in SeqUpTo(MaxShown, ShownWorkspaces)}

\* The loop of lines 32-37 (46-52, 61-67) from workspace n on.
RECURSIVE TotalLoop(_, _, _, _, _)
TotalLoop(workspaces, field, n, total, has_data) ==
    IF n > Len(workspaces) THEN (IF has_data THEN IntValue(total) ELSE NoValue)
    ELSE LET customer == Get(workspaces[n], "customer", EmptyMap)
         IN  IF customer # EmptyMap /\ Get(customer, field, Null) # Null
             THEN TotalLoop(workspaces, field, n + 1, total + customer[field], TRUE)
             ELSE TotalLoop(workspaces, field, n + 1, total, has_data)

\* The three totals of sensor.py, which differ in the field they read.
GetTotal(d, field) ==
    LET workspaces == Get(d, "workspaces", << >>)
    IN  IF workspaces = << >> THEN NoValue
        ELSE TotalLoop(workspaces, field, 1, 0, FALSE)

get_total_credit_balance(d) == GetTotal(d, "creditBalance")
get_total_current_usage(d) == GetTotal(d, "currentUsage")
get_remaining_credits(d) == GetTotal(d, "remainingUsageCreditBalance")

\* The field each total reads.
TotalFields ==
    [credit_balance |-> "creditBalance", current_usage |-> "currentUsage",
     remaining_credits |-> "remainingUsageCreditBalance"]

\* The health sensor of project p1 evaluates available and is_on.
EvaluateProjectHealth ==
    /\ call.pc = "idle"
    /\ \E success \in BOOLEAN, d \in HealthSnapshots :
         call' = [pc |-> "display", entity |-> "project_health",
                  last_update_success |-> success, data |-> d,
                  project_id |-> "p1",
                  available |-> ProjectHealthAvailable(success, d, "p1"),
                  is_on |-> ProjectHealthIsOn(d, "p1")]
    /\ UNCHANGED aggregatorVars

\* One of the total sensors evaluates its value_fn.
EvaluateTotal ==
    /\ call.pc = "idle"
    /\ \E entity \in DOMAIN TotalFields, d \in TotalSnapshots :
         call' = [pc |-> "display", entity |-> entity, data |-> d,
                  native_value |->
                      CASE entity = "credit_balance" -> get_total_credit_balance(d)
                        [] entity = "current_usage" -> get_total_current_usage(d)
                        [] entity = "remaining_credits" -> get_remaining_credits(d)]
    /\ UNCHANGED aggregatorVars

DisplayNext ==
    \/ EvaluateProjectHealth
    \/ EvaluateTotal

DisplaySpec == Init /\ [][DisplayNext]_vars

(***************************************************************************)
(* Properties.                                                             *)
(***************************************************************************)
\* The outcomes logged in this cycle for query q with argument arg.
Outcomes(q, arg) ==
    {queries[n].out :
        n \in {m \in DOMAIN queries : queries[m].q = q /\ queries[m].arg = arg}}

\* The last call has returned: Visible is the snapshot it returned and
\* queries is the log of its queries.
Returned == frame = Idle /\ signal = "success"

\* The step ends a poll cycle.
CycleEnds == frame # Idle /\ frame' = Idle

RECURSIVE SumStats(_, _, _)
SumStats(referrals, key, ids) ==
    IF ids = {} THEN 0
    ELSE LET w == CHOOSE x \in ids : TRUE
         IN  Get(Get(referrals[w], "referralStats", EmptyMap), key, 0)
                 + SumStats(referrals, key, ids \ {w})

RECURSIVE SumPayout(_)
SumPayout(templates) ==
    IF templates = << >> THEN 0
    ELSE Or0(Get(Head(templates), "totalPayout", 0)) + SumPayout(Tail(templates))

RECURSIVE SumMetrics(_, _, _)
SumMetrics(metrics, key, ids) ==
    IF ids = {} THEN 0
    ELSE LET t == CHOOSE x \in ids : TRUE
         IN  Or0(Get(metrics[t], key, 0)) + SumMetrics(metrics, key, ids \ {t})

\* C1: in a returned snapshot the deployments mapping has a key for a project
\* exactly if a deployments query for it succeeded in the cycle; a project
\* whose query failed has no key (not an empty list) and is still in projects.
C1_PartialFailure ==
    Returned =>
        \A P \in ProjectIds :
            /\ ("ok" \in Outcomes("deployments", P))
                   <=> (P \in DOMAIN Visible.deployments)
            /\ Outcomes("deployments", P) # {}
                   => \E i \in DOMAIN Visible.projects : Visible.projects[i] = P

C1_Witness ==
    /\ Returned
    /\ Outcomes("deployments", "p1") = {"failed"}
    /\ Outcomes("deployments", "p2") = {"ok"}
    /\ DOMAIN Visible.deployments = {"p2"}

\* C2: in every returned snapshot the earnings totals equal the sums over
\* what the snapshot holds: the referral stats of the referrals mapping, the
\* totalPayout of the templates list, the earnings of the template_metrics
\* mapping.
C2_TotalsMatchSnapshot ==
    Returned =>
        LET s == Visible
        IN  /\ s.earnings.referrals_credited
                 = SumStats(s.referrals, "credited", DOMAIN s.referrals)
            /\ s.earnings.referrals_pending
                 = SumStats(s.referrals, "pending", DOMAIN s.referrals)
            /\ s.earnings.templates_payout = SumPayout(s.templates)
            /\ s.earnings.templates_30d
                 = SumMetrics(s.template_metrics, "earningsLast30Days",
                              DOMAIN s.template_metrics)
            /\ s.earnings.templates_total
                 = SumMetrics(s.template_metrics, "totalEarnings",
                              DOMAIN s.template_metrics)

\* Every query of the cycle that has ended failed with the client error e.
CycleFailedWith(e) ==
    /\ frame = Idle
    /\ allFailedWith = e
    /\ \A n \in DOMAIN queries : queries[n].out \in {"failed", e}

\* C3: when every query of a cycle, the identity queries first, fails with
\* RailwayAuthError, the cycle does not end as a success: the coordinator
\* signals ConfigEntryAuthFailed and the success flag is not set.
C3_AuthErrorPropagates ==
    CycleFailedWith("RailwayAuthError")
        => signal = "ConfigEntryAuthFailed" /\ ~last_update_success

\* C4: scenario D. A first cycle whose queries all fail with
\* RailwayConnectionError ends with ConfigEntryNotReady and no snapshot
\* visible; a cycle that ends as a success makes a snapshot visible with the
\* success flag true.
C4_ScenarioD ==
    [][/\ (entry_state = "setup_in_progress" /\ CycleEnds
              /\ CycleFailedWith("RailwayConnectionError")')
           => (signal' = "ConfigEntryNotReady" /\ entry_state' = "setup_retry"
                 /\ Visible' = NoSnapshot)
       /\ (CycleEnds /\ signal' = "success")
           => (Visible' # NoSnapshot /\ last_update_success')]_vars

\* C5: the plain identity query is issued exactly if the combined one failed;
\* if both fail, me and workspaces keep their defaults and the project-list
\* query is next; if the project-list query fails, projects stays empty and
\* no deployments query is issued; when all three fail the call still
\* returns a snapshot, the one of defaults.
C5_FoundationalDegrade ==
    LET n == Len(queries)
        building == IF frame = Idle THEN Visible ELSE Result
        live == frame # Idle \/ Returned
    IN  /\ n >= 1 => queries[1].q = "me_with_workspaces"
        /\ \A m \in DOMAIN queries :
               queries[m].q = "me" => m = 2 /\ queries[1].out = "failed"
        /\ (n >= 1 /\ queries[1].out = "failed")
               => IF n = 1 THEN frame.pc = "me" ELSE queries[2].q = "me"
        /\ (n >= 1 /\ queries[1].out = "ok")
               => IF n = 1 THEN frame.pc = "projects" ELSE queries[2].q = "projects"
        /\ (n >= 2 /\ queries[1].out = "failed" /\ queries[2].out = "failed")
               => /\ IF n = 2 THEN frame.pc = "projects"
                              ELSE queries[3].q = "projects"
                  /\ live => building.me = EmptyMap /\ building.workspaces = << >>
        /\ (\E m \in DOMAIN queries :
                queries[m].q = "projects" /\ queries[m].out = "failed")
               => /\ \A m \in DOMAIN queries : queries[m].q # "deployments"
                  /\ live => building.projects = << >>
                               /\ building.deployments = EmptyMap
        /\ (n >= 3 /\ \A m \in 1..3 : queries[m].out = "failed")
               => n = 3 /\ Returned /\ Visible = InitialResult

C5_Witness ==
    /\ Returned
    /\ Len(queries) = 3
    /\ \A m \in 1..3 : queries[m].out = "failed"
    /\ [m \in 1..3 |-> queries[m].q] = <<"me_with_workspaces", "me", "projects">>

\* No workspace id occurs twice in the list.
DistinctIds(ws) ==
    \A a, b \in DOMAIN ws : (a # b /\ ws[a] # NoId) => ws[a] # ws[b]

\* C6: for workspaces with distinct ids, referrals has a key exactly for the
\* workspaces whose referral query succeeded, and the referral totals are the
\* sums of credited and pending over these.
C6_ReferralTotals ==
    (Returned /\ DistinctIds(Visible.workspaces)) =>
        LET s == Visible
        IN  /\ DOMAIN s.referrals
                 = {w \in WorkspaceIds : "ok" \in Outcomes("referral_info", w)}
            /\ \A w \in WorkspaceIds :
                   Outcomes("referral_info", w) = {"failed"}
                       => w \notin DOMAIN s.referrals
            /\ s.earnings.referrals_credited
                 = SumStats(s.referrals, "credited", DOMAIN s.referrals)
            /\ s.earnings.referrals_pending
                 = SumStats(s.referrals, "pending", DOMAIN s.referrals)

C6_Witness ==
    /\ Returned
    /\ Visible.workspaces = <<"w1", "w2">>
    /\ Outcomes("referral_info", "w1") = {"ok"}
    /\ Outcomes("referral_info", "w2") = {"failed"}
    /\ Visible.referrals = [w \in {"w1"} |-> [referralStats |-> [credited |-> 1]]]
    /\ Visible.earnings.referrals_credited = 1
    /\ Visible.earnings.referrals_pending = 0

\* C7: every snapshot returned is not null and has all eight fields; a branch
\* whose query failed holds its default (the mapping has no key, the list no
\* element, the totals are zero) and nothing is partly filled.
C7_SnapshotComplete ==
    Returned =>
        LET s == Visible
            failed(q, arg) == Outcomes(q, arg) = {"failed"}
        IN  /\ s # NoSnapshot
            /\ DOMAIN s = SnapshotKeys
            /\ DOMAIN s.earnings = DOMAIN ZeroTotals
            /\ DOMAIN s.me \in {{}, {"id", "name", "email"}}
            /\ \A k \in DOMAIN s.templates :
                   "workspace_id" \in DOMAIN s.templates[k]
            /\ failed("me_with_workspaces", NoId)
                   => /\ s.workspaces = << >> /\ s.referrals = EmptyMap
                      /\ s.templates = << >> /\ s.template_metrics = EmptyMap
                      /\ s.earnings = ZeroTotals
            /\ (failed("me_with_workspaces", NoId) /\ failed("me", NoId))
                   => s.me = EmptyMap
            /\ failed("projects", NoId)
                   => s.projects = << >> /\ s.deployments = EmptyMap
            /\ \A P \in ProjectIds :
                   failed("deployments", P) => P \notin DOMAIN s.deployments
            /\ \A W \in WorkspaceIds :
                   /\ failed("referral_info", W) => W \notin DOMAIN s.referrals
                   /\ failed("workspace_templates", W)
                          => \A k \in DOMAIN s.templates :
                                 s.templates[k].workspace_id # W
            /\ \A T \in TemplateIds :
                   failed("template_metrics", T)
                       => T \notin DOMAIN s.template_metrics

C7_Witness ==
    /\ Returned
    /\ Outcomes("me_with_workspaces", NoId) = {"failed"}
    /\ Outcomes("me", NoId) = {"failed"}
    /\ Outcomes("projects", NoId) = {"ok"}
    /\ Outcomes("deployments", "p1") = {"failed"}
    /\ Visible.projects = <<"p1">>
    /\ Visible.me = EmptyMap

\* C8: while a cycle is suspended at a query the visible snapshot does not
\* change and the call builds its result in a dict other than the one handed
\* out; the visible snapshot changes only at the end of a successful cycle,
\* to the dict that cycle built, with the success flag true.
C8_NoPartialSnapshot ==
    [][/\ (frame'.pc # "idle") => (Visible' = Visible /\ frame'.res # data')
       /\ (Visible' # Visible)
           => /\ CycleEnds
              /\ signal' = "success"
              /\ last_update_success'
              /\ data' = frame.res
              /\ DOMAIN Visible' = SnapshotKeys]_vars

C8_Witness ==
    /\ frame.pc = "deployments"
    /\ Visible # NoSnapshot
    /\ Visible.projects = <<"p2">>
    /\ Result.projects = <<"p1">>

\* C9: once a snapshot is visible, one is visible in every later state; a
\* cycle that fails leaves the visible snapshot as it was; a cycle that
\* succeeds leaves one visible.
C9_LastKnownGood ==
    [][/\ (Visible # NoSnapshot) => (Visible' # NoSnapshot)
       /\ (CycleEnds /\ signal' # "success")
           => (Visible' = Visible /\ ~last_update_success')
       /\ (CycleEnds /\ signal' = "success") => (Visible' # NoSnapshot)]_vars

C9_Witness ==
    /\ frame = Idle
    /\ signal = "TimeoutError"
    /\ ~last_update_success
    /\ Visible # NoSnapshot
    /\ Visible.projects = <<"p1">>
    /\ queries # << >>

Responded == call.pc = "done" /\ ~Raised(call.post)

\* C12: every exception raised by the POST of _execute_query, a connection
\* failure or the expiry of the request timeout, leaves _execute_query as
\* RailwayConnectionError.
C12_TransportWrapped ==
    (call.pc = "done" /\ Raised(call.post))
        => call.query.raises = "RailwayConnectionError"

PerBranchQueries ==
    {"deployments", "referral_info", "workspace_templates", "template_metrics"}

\* C13: when a per-branch query times out, the cycle is not aborted: the call
\* goes on to its next query or returns a snapshot, in which the branch has
\* no entry.
C13_BranchTimeoutDegrades ==
    [][(/\ frame.pc \in PerBranchQueries
        /\ Len(queries') = Len(queries) + 1
        /\ queries'[Len(queries')].out = "TimeoutError")
          => (frame'.pc # "idle" \/ signal' = "success")]_vars

\* C14: a response with status 401 or 403 raises RailwayAuthError whatever its
\* body; every other status but 200 raises a plain RailwayApiError whose
\* message carries the first 500 characters of the body at most; data is
\* returned only for status 200; an accessor passes the RailwayAuthError on.
C14_StatusClassification ==
    Responded =>
        LET response == call.post
            r == call.query
        IN  /\ response.status \in {401, 403}
                  => /\ Raised(r) /\ r.raises = "RailwayAuthError"
                     /\ call.op \in Accessors
                            => Raised(call.outcome)
                                 /\ call.outcome.raises = "RailwayAuthError"
            /\ response.status \notin {200, 401, 403}
                  => /\ Raised(r) /\ r.raises = "RailwayApiError"
                     /\ Len(r.message.body) <= 500
                     /\ Len(r.message.body) <= Len(response.text)
                     /\ Len(response.text) <= 500
                            => r.message.body = response.text
                     /\ \A i \in DOMAIN r.message.body :
                            r.message.body[i] = response.text[i]
            /\ ~Raised(r) => response.status = 200

C14_Witness ==
    /\ Responded
    /\ call.op = "async_get_me"
    /\ call.post.status = 403
    /\ call.post.json = [valid |-> TRUE, body |-> [data |-> [me |-> User]]]
    /\ call.outcome.raises = "RailwayAuthError"

\* The entries whose message, lowercased, has one of the substrings.
AuthErrorObjects ==
    {[message |-> <<"N", "o", "t", " ", "A", "u", "t", "h", "o", "r", "i", "z", "e", "d">>],
     [message |-> <<"U", "N", "A", "U", "T", "H", "O", "R", "I", "Z", "E", "D">>],
     [message |-> <<"N", "o", "t", " ", "a", "u", "t", "h", "e", "n", "t", "i", "c", "a", "t", "e", "d">>]}

\* The status-200 responses with an `errors` array.
HasErrors ==
    /\ Responded
    /\ call.post.status = 200
    /\ call.post.json.valid
    /\ "errors" \in DOMAIN call.post.json.body

\* C15: for a status-200 body with an `errors` array, with or without `data`,
\* _execute_query returns nothing: it raises RailwayAuthError if one of the
\* messages, lowercased, contains 'auth', 'unauthorized' or 'not
\* authenticated', and otherwise a plain RailwayApiError with all messages
\* joined.
C15_GraphQLErrorClassification ==
    HasErrors =>
        LET errors == call.post.json.body.errors
            r == call.query
        IN  /\ Raised(r)
            /\ r.raises =
                 IF \E i \in DOMAIN errors : errors[i] \in AuthErrorObjects
                 THEN "RailwayAuthError" ELSE "RailwayApiError"
            /\ r.raises = "RailwayApiError"
                  => /\ \A i \in DOMAIN errors :
                            Contains(ErrorMessage(errors[i]), r.message.body)
                     /\ r.message.body =
                            Join([i \in DOMAIN errors |-> ErrorMessage(errors[i])],
                                 <<";", " ">>)

C15_Witness ==
    /\ HasErrors
    /\ "data" \in DOMAIN call.post.json.body
    /\ Len(call.post.json.body.errors) = 2
    /\ call.post.json.body.errors[1].message = <<"R", "a", "t", "e", " ", "l", "i", "m", "i", "t">>
    /\ call.post.json.body.errors[2].message
           = <<"N", "o", "t", " ", "A", "u", "t", "h", "o", "r", "i", "z", "e", "d">>
    /\ call.query.raises = "RailwayAuthError"

\* C16: whatever the token_type, the headers of a request have exactly one of
\* Authorization (Bearer) and Team-Access-Token: the team header for 'team',
\* the bearer header for every other value.
C16_OneCredentialHeader ==
    call.pc # "idle" =>
        LET h == call.headers
            bearer == "Authorization" \in DOMAIN h
            team == "Team-Access-Token" \in DOMAIN h
        IN  /\ bearer # team
            /\ team <=> call.token_type = "team"
            /\ team => h["Team-Access-Token"] = "token"
            /\ bearer => h["Authorization"] = <<"Bearer", "token">>

C16_Witness ==
    /\ call.pc = "done"
    /\ call.token_type = "team"
    /\ DOMAIN call.headers = {"Content-Type", "Team-Access-Token"}

\* C17: when _execute_query returns data without the field an accessor
\* reads, the accessor returns its empty value and does not raise.
C17_AccessorDefaults ==
    (/\ call.pc = "done"
     /\ call.op \in Accessors
     /\ ~Raised(call.query)
     /\ Field(call.op) \notin DOMAIN call.query.returns)
        => /\ ~Raised(call.outcome)
           /\ call.outcome.returns = << >>

C17_Witness ==
    /\ call.pc = "done"
    /\ call.op = "async_get_deployments"
    /\ ~Raised(call.query)
    /\ call.query.returns = [me |-> User]
    /\ call.outcome = [returns |-> << >>]

\* C18: async_validate_token raises no client error: it returns False when
\* the identity query fails with any of the three client errors, and True
\* exactly when the query succeeds and `me` has a non-empty id.
C18_ValidateToken ==
    (call.pc = "done" /\ call.op = "async_validate_token") =>
        LET r == call.query
            out == call.outcome
        IN  /\ Raised(out) => out.raises \notin RailwayErrors
            /\ (Raised(r) /\ r.raises \in RailwayErrors)
                  => (~Raised(out) /\ out.returns = FALSE)
            /\ (~Raised(out) /\ out.returns = TRUE)
                  <=> /\ ~Raised(r)
                      /\ "me" \in DOMAIN r.returns
                      /\ "id" \in DOMAIN r.returns.me
                      /\ r.returns.me.id = "u1"

C18_Witness ==
    /\ call.pc = "done"
    /\ call.op = "async_validate_token"
    /\ Raised(call.query)
    /\ call.query.raises = "RailwayConnectionError"
    /\ call.outcome = [returns |-> FALSE]

\* C19: every mapping async_get_all_data returns has the keys 'me',
\* 'projects' and 'teams'.
C19_HasTeams ==
    Returned => {"me", "projects", "teams"} \subseteq DOMAIN Visible

\* C20: against a remote whose state does not change, a call of
\* async_get_all_data that returns gives a snapshot equal, field for field,
\* to the one the call before it returned.
C20_Idempotent ==
    [][(CycleEnds /\ signal' = "success" /\ Visible # NoSnapshot)
          => Visible' = Visible]_vars

C20_Witness ==
    /\ Returned
    /\ remote # NoRemote
    /\ budget = ReplayBudget - 5
    /\ Visible.workspaces = <<"w1">>
    /\ Len(Visible.templates) = 1
    /\ DOMAIN Visible.template_metrics = {"t1"}
    /\ Visible.earnings.templates_30d = 1

\* The whole minutes each stored option value stands for.
OptionMinutes(options) ==
    IF "scan_interval" \notin DOMAIN options THEN 15
    ELSE LET v == options.scan_interval
         IN  CASE v \in {StrValue(<<"5">>), IntValue(5)} -> 5
               [] v \in {StrValue(<<"1", "0">>), IntValue(10)} -> 10
               [] v \in {StrValue(<<"1", "5">>), IntValue(15)} -> 15
               [] v \in {StrValue(<<"3", "0">>), IntValue(30)} -> 30
               [] v \in {StrValue(<<"6", "0">>), IntValue(60)} -> 60

\* A step of the update listener: one waiting call of it has run.
ListenerRan == listener_calls' = listener_calls - 1

\* C21: the coordinator is created with an interval of 15 minutes when no
\* scan-interval option is stored; whatever option value in {5, 10, 15, 30, 60}
\* is stored, as a string or as an integer, after the update listener has run
\* update_interval is that many whole minutes (in seconds), and the listener
\* neither unloads the entry nor replaces the coordinator's snapshot.
C21_PollInterval ==
    [][/\ (entry_state # "setup_in_progress" /\ entry_state' = "setup_in_progress")
            => update_interval' = 60 * OptionMinutes(entries[AccountId].options)
       /\ ListenerRan
            => /\ update_interval' = 60 * OptionMinutes(entries[AccountId].options)
               /\ entry_state' = entry_state
               /\ data' = data
               /\ last_update_success' = last_update_success
               /\ entries' = entries]_vars

\* The option "60" was stored on the loaded entry and the listener has applied
\* it to the running coordinator.
C21_PollIntervalWitness ==
    /\ entry_state = "loaded"
    /\ data # NoRef
    /\ entries[AccountId].options = [scan_interval |-> StrValue(<<"6", "0">>)]
    /\ listener_calls = 0
    /\ update_interval = 3600
    /\ frame # Idle
    /\ queries = << >>

\* The keys of the entry's data that hold the credential.
CredentialKeys == {"api_token", "token_type"}

\* The step shows the form of the reauth step again, with or without errors.
ReauthFormShown ==
    /\ flow' # flow
    /\ flow'.type = "form"
    /\ flow'.step_id = "reauth_confirm"

\* C22: a successful async_step_reauth_confirm changes the entry's data in the
\* keys api_token and token_type only, where it stores the new token; the
\* other keys of the data and the options keep their values, and no entry is
\* removed; a re-authentication that ends with the form leaves every entry and
\* the state of the entry as they were.
C22_ReauthFrame ==
    [][/\ \A a \in DOMAIN entries :
            /\ a \in DOMAIN entries'
            /\ entries'[a].options = entries[a].options
            /\ DOMAIN entries'[a].data = DOMAIN entries[a].data
            /\ \A k \in DOMAIN entries[a].data \ CredentialKeys :
                   entries'[a].data[k] = entries[a].data[k]
            /\ entries'[a] # entries[a]
                   => /\ flow' = [type |-> "abort", step_id |-> "reauth_confirm",
                                  reason |-> "reauth_successful",
                                  out |-> "ok", id |-> flow'.id]
                      /\ entries'[a].data.api_token = "token2"
                      /\ entries'[a].data.token_type \in {"personal", "team"}
       /\ ReauthFormShown
            => /\ entries' = entries
               /\ entry_state' = entry_state]_vars

\* The entry with a stored scan interval has been re-authenticated with a
\* team token and is being set up again.
C22_ReauthFrameWitness ==
    /\ flow.type = "abort"
    /\ AccountId \in DOMAIN entries
    /\ entries[AccountId] =
         [data |-> EntryData("token2", "team", AccountId, "Ann"),
          options |-> [scan_interval |-> StrValue(<<"3", "0">>)]]
    /\ entry_state = "loaded"
    /\ update_interval = 1800

\* The step has run async_step_user with input.
UserStepRan ==
    /\ flow' # flow
    /\ flow'.step_id = "user"
    /\ flow'.out # "none"

\* The error each end of the identity query is to be shown with.
ExpectedError(out, id) ==
    CASE out = "RailwayAuthError" -> "invalid_auth"
      [] out = "ok" /\ id \in {"", None} -> "invalid_auth"
      [] out = "RailwayConnectionError" -> "cannot_connect"
      [] OTHER -> "unknown"

\* C29: async_step_user creates an entry only when the identity query has
\* returned a non-empty id, and then for that id, which was not configured;
\* RailwayAuthError or an empty id gives the form with 'invalid_auth',
\* RailwayConnectionError with 'cannot_connect', any other exception with
\* 'unknown'; a step that shows the form creates no entry, and an entry that
\* exists is never replaced by the step.
C29_UserStep ==
    [][/\ DOMAIN entries # DOMAIN entries'
            => /\ flow'.type = "create_entry"
               /\ flow'.step_id = "user"
               /\ flow'.out = "ok"
               /\ flow'.id \notin {"", None}
               /\ flow'.id \notin DOMAIN entries
               /\ DOMAIN entries' = DOMAIN entries \cup {flow'.id}
               /\ entries'[flow'.id].data.account_id = flow'.id
               /\ \A a \in DOMAIN entries : entries'[a] = entries[a]
       /\ UserStepRan /\ flow'.type = "form"
            => /\ flow'.errors = [base |-> ExpectedError(flow'.out, flow'.id)]
               /\ entries' = entries
       /\ UserStepRan /\ (flow'.out # "ok" \/ flow'.id \in {"", None})
            => flow'.type = "form"
       /\ UserStepRan /\ flow'.id \in DOMAIN entries
            => flow'.type = "form"]_vars

\* Both accounts are configured, and the step has just refused to configure
\* the first one again.
C29_UserStepWitness ==
    /\ DOMAIN entries = {"u1", "u2"}
    /\ flow = ShowForm("user", "unknown", "ok", "u1")

Tagged(tpls, w) == [k \in DOMAIN tpls |-> Put(tpls[k], "workspace_id", w)]

\* The tagged templates of the successful templates queries of a log, in the
\* order of the log.
RECURSIVE ReturnedTemplates(_)
ReturnedTemplates(log) ==
    IF log = << >> THEN << >>
    ELSE LET e == Head(log)
         IN  (IF e.q = "workspace_templates" /\ e.out = "ok"
              THEN Tagged(e.val, e.arg) ELSE << >>)
                 \o ReturnedTemplates(Tail(log))

\* The ids of the templates of a list that have one, in order.
IdsOf(tpls) ==
    LET w == SelectSeq(tpls, LAMBDA t : Get(t, "id", NoId) # NoId)
    IN  [m \in DOMAIN w |-> w[m].id]

\* The arguments of the metrics queries of a log, in order.
MetricsArguments(log) ==
    LET w == SelectSeq(log, LAMBDA e : e.q = "template_metrics")
    IN  [m \in DOMAIN w |-> w[m].arg]

\* The sum of a field over the metrics that the queries of a log returned.
RECURSIVE ReturnedMetricsSum(_, _)
ReturnedMetricsSum(log, key) ==
    IF log = << >> THEN 0
    ELSE LET e == Head(log)
         IN  (IF e.q = "template_metrics" /\ e.out = "ok" /\ key \in DOMAIN e.val
                  /\ e.val[key] # Null
              THEN e.val[key] ELSE 0)
                 + ReturnedMetricsSum(Tail(log), key)

\* C23: in a returned snapshot, templates is the list of the templates that
\* the successful workspace-templates queries of the cycle returned, each
\* tagged with the workspace_id of its query; template_metrics has a key for
\* t exactly if a metrics query for t succeeded; templates_payout is the sum
\* over all of templates, templates_30d and templates_total are the sums over
\* the metrics that were returned; and every template with an id has had its
\* metrics query, whatever the outcome of the queries before it.
C23_TemplateBranch ==
    Returned =>
        LET s == Visible
        IN  /\ s.templates = ReturnedTemplates(queries)
            /\ DOMAIN s.template_metrics
                 = {t \in TemplateIds : "ok" \in Outcomes("template_metrics", t)}
            /\ s.earnings.templates_payout = SumPayout(s.templates)
            /\ s.earnings.templates_30d
                 = ReturnedMetricsSum(queries, "earningsLast30Days")
            /\ s.earnings.templates_total
                 = ReturnedMetricsSum(queries, "totalEarnings")
            /\ MetricsArguments(queries) = IdsOf(s.templates)

\* A workspace returned two templates; the metrics query of the first failed,
\* the one of the second succeeded with earnings.
C23_TemplateBranchWitness ==
    /\ Returned
    /\ Len(Visible.templates) = 2
    /\ Visible.earnings.templates_payout = 2
    /\ Visible.earnings.templates_30d = 1
    /\ \E m, n \in DOMAIN queries :
         /\ m < n
         /\ queries[m].q = "template_metrics" /\ queries[m].out = "failed"
         /\ queries[n].q = "template_metrics" /\ queries[n].out = "ok"
         /\ queries[m].arg # queries[n].arg
         /\ DOMAIN Visible.template_metrics = {queries[n].arg}

\* The queries of the cycle so far: those that have ended, and the one the
\* call is suspended at.
Issued ==
    IF frame.pc \in {"me_with_workspaces", "me", "projects"} \cup PerBranchQueries
    THEN Append(queries, [q |-> frame.pc, arg |-> QueryArgument, out |-> "pending"])
    ELSE queries

\* The place of a query in the order of the phases.
Phase(q) ==
    CASE q = "me_with_workspaces" -> 1
      [] q = "me" -> 2
      [] q = "projects" -> 3
      [] q = "deployments" -> 4
      [] OTHER -> 5

\* From position n on, the log has the queries of the workspaces from index j
\* on: referral, templates, and the metrics of each returned template with id.
RECURSIVE WorkspaceOrder(_, _, _, _)
WorkspaceOrder(log, ws, j, n) ==
    IF n > Len(log) THEN TRUE
    ELSE IF j > Len(ws) THEN FALSE
    ELSE IF ws[j] = NoId THEN WorkspaceOrder(log, ws, j + 1, n)
    ELSE /\ log[n].q = "referral_info"
         /\ log[n].arg = ws[j]
         /\ n + 1 <= Len(log) =>
              /\ log[n + 1].q = "workspace_templates"
              /\ log[n + 1].arg = ws[j]
              /\ LET ids == IF log[n + 1].out = "ok"
                            THEN IdsOf(log[n + 1].val) ELSE << >>
                 IN  /\ \A m \in 1..Len(ids) :
                            n + 1 + m <= Len(log) =>
                                /\ log[n + 1 + m].q = "template_metrics"
                                /\ log[n + 1 + m].arg = ids[m]
                     /\ WorkspaceOrder(log, ws, j + 1, n + 2 + Len(ids))

\* C24: at every moment of a cycle the queries issued so far are, in this
\* order: the combined identity query; the plain one exactly if the combined
\* one failed; the project list; one deployments query per project with an
\* id, in list order; then per workspace with an id, in list order, referral,
\* templates and the metrics of each returned template; every query but the
\* last has ended, and nothing follows a query that raised out of the call.
C24_QueryOrder ==
    LET log == Issued
        ws == IF log # << >> /\ log[1].out = "ok"
              THEN Get(log[1].val, "workspaces", << >>) ELSE << >>
        p == IF Len(log) >= 2 /\ log[2].q = "me" THEN 3 ELSE 2
        ids == IF Len(log) >= p /\ log[p].out = "ok"
               THEN SelectSeq(log[p].val, LAMBDA x : x # NoId) ELSE << >>
    IN  /\ log # << >> => log[1].q = "me_with_workspaces"
        /\ \A n \in DOMAIN log :
             /\ n > 1 => /\ Phase(log[n - 1].q) <= Phase(log[n].q)
                         /\ log[n - 1].out \in {"ok", "failed"}
             /\ log[n].q = "me_with_workspaces" => n = 1
             /\ log[n].q = "me" => n = 2 /\ log[1].out = "failed"
             /\ log[n].q = "projects" => n = p
             /\ log[n].q = "deployments"
                    => n - p \in 1..Len(ids) /\ log[n].arg = ids[n - p]
             /\ (n > p /\ n - p <= Len(ids)) => log[n].q = "deployments"
        /\ (Len(log) >= 2 /\ log[1].out = "failed") => log[2].q = "me"
        /\ Len(log) >= p => log[p].q = "projects"
        /\ WorkspaceOrder(log, ws, 1, p + Len(ids) + 1)

\* A cycle with one project, one workspace and one template has returned
\* after its six queries.
C24_QueryOrderWitness ==
    /\ Returned
    /\ Len(queries) = 6
    /\ [n \in 1..6 |-> queries[n].q]
         = <<"me_with_workspaces", "projects", "deployments", "referral_info",
             "workspace_templates", "template_metrics">>

\* The statuses of DeploymentStatuses that are a healthy one in some case.
HealthySpellings ==
    {<<"S", "U", "C", "C", "E", "S", "S">>,
     <<"s", "u", "c", "c", "e", "s", "s">>,
     <<"R", "u", "n", "n", "i", "n", "g">>,
     <<"D", "E", "P", "L", "O", "Y", "I", "N", "G">>}

\* C26: for an available coordinator with a snapshot, the health sensor of
\* project P is available exactly if the deployments mapping has a key for P;
\* with the key and an empty list it is available and is_on is None; with a
\* non-empty list is_on is whether every deployment has a status that is
\* SUCCESS, RUNNING or DEPLOYING in some case.
C26_ProjectHealth ==
    (/\ call.pc = "display"
     /\ call.entity = "project_health"
     /\ call.last_update_success
     /\ call.data # NoSnapshot)
        => LET dm == IF "deployments" \in DOMAIN call.data
                     THEN call.data.deployments ELSE EmptyMap
               P == call.project_id
           IN  /\ call.available <=> (P \in DOMAIN dm)
               /\ (P \in DOMAIN dm /\ dm[P] = << >>) => call.is_on = NoValue
               /\ (P \in DOMAIN dm /\ dm[P] # << >>)
                    => call.is_on =
                         BoolValue(\A n \in DOMAIN dm[P] :
                                      /\ "status" \in DOMAIN dm[P][n]
                                      /\ dm[P][n].status \in HealthySpellings)

\* The project has two deployments, spelled "success" and "Running": the
\* sensor is available and on.
C26_ProjectHealthWitness ==
    /\ call.pc = "display"
    /\ call.entity = "project_health"
    /\ call.last_update_success
    /\ call.data = [deployments |->
                       ("p1" :> <<[status |-> <<"s", "u", "c", "c", "e", "s", "s">>],
                                  [status |-> <<"R", "u", "n", "n", "i", "n", "g">>]>>)]
    /\ call.available
    /\ call.is_on = BoolValue(TRUE)

\* The sum of a referral stat over the referral responses of a log, a missing
\* or null stat counting as zero.
RECURSIVE ReturnedStatsSum(_, _)
ReturnedStatsSum(log, key) ==
    IF log = << >> THEN 0
    ELSE LET e == Head(log)
             stats == IF e.q = "referral_info" /\ "val" \in DOMAIN e
                         /\ "referralStats" \in DOMAIN e.val
                      THEN e.val.referralStats ELSE EmptyMap
         IN  (IF key \in DOMAIN stats /\ stats[key] # Null THEN stats[key] ELSE 0)
                 + ReturnedStatsSum(Tail(log), key)

\* C25: a query whose response was fetched never ends the call with an
\* exception, whatever numeric field of the response is missing or null, and
\* in the returned snapshot the five totals are the sums over the responses
\* of the cycle with missing and null fields counted as zero.
C25_NumericPolicy ==
    /\ \A n \in DOMAIN queries :
           "val" \in DOMAIN queries[n] => queries[n].out = "ok"
    /\ Returned =>
           LET e == Visible.earnings
           IN  /\ e.referrals_credited = ReturnedStatsSum(queries, "credited")
               /\ e.referrals_pending = ReturnedStatsSum(queries, "pending")
               /\ e.templates_payout = SumPayout(ReturnedTemplates(queries))
               /\ e.templates_30d
                    = ReturnedMetricsSum(queries, "earningsLast30Days")
               /\ e.templates_total = ReturnedMetricsSum(queries, "totalEarnings")

\* The workspaces of a list whose customer has a number in the field.
WithAmount(workspaces, field) ==
    {n \in DOMAIN workspaces :
        /\ "customer" \in DOMAIN workspaces[n]
        /\ field \in DOMAIN workspaces[n].customer
        /\ workspaces[n].customer[field] # Null}

RECURSIVE AmountSum(_, _, _)
AmountSum(workspaces, field, ns) ==
    IF ns = {} THEN 0
    ELSE LET n == CHOOSE x \in ns : TRUE
         IN  workspaces[n].customer[field] + AmountSum(workspaces, field, ns \ {n})

\* The display half of C25: a total is None when no workspace has a number
\* in the field, and else the sum over the workspaces that have one.
DisplayTotals ==
    (call.pc = "display" /\ call.entity \in DOMAIN TotalFields)
        => LET field == TotalFields[call.entity]
               ws == IF "workspaces" \in DOMAIN call.data
                     THEN call.data.workspaces ELSE << >>
               ns == WithAmount(ws, field)
           IN  call.native_value =
                   IF ns = {} THEN NoValue
                   ELSE IntValue(AmountSum(ws, field, ns))

\* C27: after a poll cycle the API-connected sensor is on only if a query of
\* that cycle got a response; after a cycle whose queries all failed it is off.
C27_ApiConnected ==
    (frame = Idle /\ queries # << >>
        /\ ApiConnectedIsOn(last_update_success, Visible))
        => \E n \in DOMAIN queries : "val" \in DOMAIN queries[n]

\* The number of queries of a log for an accessor.
Count(log, q) == Cardinality({n \in DOMAIN log : log[n].q = q})

\* The number of elements of a list that have an id.
WithIds(ids) == Cardinality({n \in DOMAIN ids : ids[n] # NoId})

\* C28: a cycle in which every query got a response or failed with a client
\* error ends with async_get_all_data returning, after at most two identity
\* queries, one project-list query, one deployments query per project with
\* an id, one referral and one templates query per workspace with an id and
\* one metrics query per returned template with an id.
C28_ReturnsWithinBound ==
    [][(/\ CycleEnds
        /\ \A n \in DOMAIN queries' :
               queries'[n].out \in {"ok", "failed"} \/ "val" \in DOMAIN queries'[n])
          => /\ signal' = "success"
             /\ LET log == queries'
                    s == heap'[data']
                IN  /\ Count(log, "me_with_workspaces") + Count(log, "me") <= 2
                    /\ Count(log, "projects") = 1
                    /\ Count(log, "deployments") = WithIds(s.projects)
                    /\ Count(log, "referral_info") = WithIds(s.workspaces)
                    /\ Count(log, "workspace_templates") = WithIds(s.workspaces)
                    /\ Count(log, "template_metrics")
                         = Len(IdsOf(ReturnedTemplates(log)))]_vars

====
